---- MODULE Spec2Model ----
(***************************************************************************)
(* Model of the Picmotion pipeline (src/src/lib/pipeline/index.ts) and of  *)
(* the job store it writes to (src/src/lib/jobs/store.ts).                 *)
(*                                                                         *)
(* Values.  URLs and file names are tuples, the empty tuple standing for    *)
(* null / undefined.  An error message is a record: the fixed text of the  *)
(* template the code builds it from, and the url, task id and number the   *)
(* template interpolates (Null or 0 where it has none).                    *)
(*                                                                         *)
(* Environment.  Every network call, store write and media-tool run may    *)
(* succeed or fail in each of the ways the code distinguishes.  A status   *)
(* query may take any time; a remote task reports a non-terminal status at *)
(* most MaxPolls times.  The remote service numbers its tasks in the order *)
(* of the frames they are submitted for.                                   *)
(*                                                                         *)
(* Specifications.  Spec is the whole pipeline, orchestrate and its caller. *)
(* The stage functions are exported and are also studied on their own,     *)
(* over a wider range of arguments and answers: SpecVideo (generateVideos),*)
(* SpecStoryboard (generateStoryboard), SpecSplit (splitStoryboard),       *)
(* SpecComposite (compositeVlog), SpecConcurrent (two compositeVlog calls  *)
(* at the same time), SpecPoll and SpecPollPending (rhPollUntilDone),      *)
(* SpecPollers (two rhPollUntilDone calls at the same time, a query and    *)
(* its answer being separate steps), SpecUpload (uploadPhotosToRH),        *)
(* SpecPages (the processing page and the result page of the web UI, the   *)
(* status endpoint and the pipeline's status writes; weakly fair).         *)
(* A media tool may also run without ever exiting.                         *)
(***************************************************************************)
EXTENDS Integers, Sequences, FiniteSets, TLC

\* ---- bounds of the model ------------------------------------------------
MaxRuns == 2
MaxPhotos == 2
MaxPolls == 1
MaxFrames == 20
MaxTask == 2
MaxClips == 9
MaxClock == 1
MaxDim == 7
MaxRefs == 20
MaxUpload == 20

\* ---- program constants --------------------------------------------------
POLL_INTERVAL_MS == 10000
POLL_TIMEOUT_MS == 15 * 60000
VIDEO_POLL_TIMEOUT_MS == 20 * 60000
MAX_VIDEO_CONCURRENCY == 3

Null == << >>

JobIds == {"job-1", "job-unknown"}
ExistingJobs == {"job-1"}

Min(a, b) == IF a < b THEN a ELSE b
Max(a, b) == IF a > b THEN a ELSE b

\* ---- errors ---------------------------------------------------------------
Message(text, url, task, num) ==
  [text |-> text, url |-> url, task |-> task, num |-> num]

\* a null errorMessage
NoMessage == Message("", Null, 0, 0)

\* new Error(message)
Error(text, url, task, num) == [message |-> Message(text, url, task, num)]

NoError == [message |-> NoMessage]

\* ---- the job store (store.ts) --------------------------------------------
\* the row createJob inserts
createJob == [status |-> "pending", videoUrl |-> Null, rhTaskIds |-> Null,
              errorMessage |-> NoMessage, completedAt |-> Null]

\* .set(update): the fields of the update replace the row's, the others stay
SetFields(row, update) ==
  [f \in DOMAIN row |-> IF f \in DOMAIN update THEN update[f] ELSE row[f]]

\* update(vlogJob).set(update).where(eq(vlogJob.id, id)): rows that match
updateJob(st, id, update) ==
  [j \in DOMAIN st |-> IF j = id THEN SetFields(st[j], update) ELSE st[j]]

\* the error the database driver rejects with when the store is unavailable
StoreError == Error("store unavailable", Null, 0, 0)

\* ---- orchestrate: the three writes and the catch block -------------------
ProcessingUpdate == [status |-> "processing"]

\* variant: the write of "completed" leaves the result URL out
CompletedUpdateWithoutUrl(url) ==
  [status |-> "completed", completedAt |-> <<"new Date()">>]

CompletedUpdate(url) ==
  [status |-> "completed", videoUrl |-> url, completedAt |-> <<"new Date()">>]

\* variant: the write of "failed" also stores the storyboard as the result
FailedUpdateWithStoryboard(msg) ==
  [status |-> "failed", errorMessage |-> msg, videoUrl |-> <<"out", 1, 1>>]

FailedUpdate(msg) == [status |-> "failed", errorMessage |-> msg]

\* variant: a fixed message is stored instead of the error's
ErrMsgGeneric(e) == Message("pipeline failed", Null, 0, 0)

\* const msg = err instanceof Error ? err.message : String(err)
ErrMsg(e) == e.message

\* variant: a failure of the write of "failed" is not swallowed
RethrownUnlessStoreFails(e, storeOk) == IF storeOk THEN e ELSE StoreError

\* await updateJob(..failed..).catch(() => {}); throw err
Rethrown(e, storeOk) == e

\* variant: a failure of the write of "completed" is swallowed
CompletedWriteNeverThrows(storeOk) == FALSE

\* whether the awaited write of "completed" throws into the catch block
CompletedWriteThrows(storeOk) == ~storeOk

\* variant: the videos are generated right after the upload
StageAfterSkipping(s) ==
  CASE s = "upload" -> "video"
    [] s = "storyboard" -> "split"
    [] s = "split" -> "video"
    [] s = "video" -> "composite"
    [] s = "composite" -> "persist"

\* the call that follows a stage's successful return in orchestrate
StageAfter(s) ==
  CASE s = "upload" -> "storyboard"
    [] s = "storyboard" -> "split"
    [] s = "split" -> "video"
    [] s = "video" -> "composite"
    [] s = "composite" -> "persist"

\* program counter at which a stage begins
StagePc(s) ==
  CASE s = "upload" -> "upload"
    [] s = "storyboard" -> "sb_submit"
    [] s = "split" -> "split"
    [] s = "video" -> "v_upload"
    [] s = "composite" -> "composite"
    [] s = "persist" -> "persist"

\* ---- values built by the stages -----------------------------------------
PhotoUrl(i) == <<"photo", i>>

\* uploadJson.data.fileName: the name the service assigns to an uploaded file
RhFileName(url) == <<"rh", url>>

\* result.url of storage.uploadFile for frame idx
FrameUrl(idx) == <<"frame", idx>>

\* url of the k-th output artifact of a remote task
OutputUrl(task, k) == <<"out", task, k>>

\* the task id the service answers a submission with
StoryboardTaskId == 1
VideoTaskId(k) == k + 1

\* the url of the last output, not of the first
LastUrl(results) == IF Len(results) = 0 THEN Null ELSE results[Len(results)]

\* result.results?.[0]?.url
FirstUrl(results) == IF Len(results) = 0 THEN Null ELSE results[1]

\* the results a SUCCESS reply may carry: none, one or two artifacts
ResultLists(task) ==
  { << >>, <<OutputUrl(task, 1)>>, <<OutputUrl(task, 1), OutputUrl(task, 2)>> }

\* ---- values of the language -------------------------------------------------
Undefined == [type |-> "undefined"]
Str(s) == [type |-> "string", str |-> s]

\* names that every object literal inherits from Object.prototype (two of
\* them), and the function object such a name evaluates to
ObjectPrototypeKeys == {"constructor", "toString"}
Inherited(key) == [type |-> "function", name |-> key]

\* obj[key], obj an object literal: own property, inherited one, or undefined
Lookup(obj, key) ==
  IF key \in DOMAIN obj THEN obj[key]
  ELSE IF key \in ObjectPrototypeKeys THEN Inherited(key)
  ELSE Undefined

\* v.field, v an object or a function
Get(v, field) == IF field \in DOMAIN v THEN v[field] ELSE Undefined

\* ---- style prompts ----------------------------------------------------------
\* the literal `styles`; the prompt texts are abbreviated
styles ==
  [cinematic |-> [type |-> "object",
                  storyboardPrompt |-> Str("cinematic storyboard prompt"),
                  qualityPrompt |-> Str("cinematic quality prompt"),
                  videoPrompt |-> Str("cinematic video prompt")],
   romantic |-> [type |-> "object",
                 storyboardPrompt |-> Str("romantic storyboard prompt"),
                 qualityPrompt |-> Str("romantic quality prompt"),
                 videoPrompt |-> Str("romantic video prompt")],
   travel |-> [type |-> "object",
               storyboardPrompt |-> Str("travel storyboard prompt"),
               qualityPrompt |-> Str("travel quality prompt"),
               videoPrompt |-> Str("travel video prompt")]]

\* return styles[style] ?? styles.cinematic
getStylePrompts(s) ==
  LET v == Lookup(styles, s) IN IF v = Undefined THEN styles.cinematic ELSE v

\* the style identifiers the route accepts
VALID_STYLES == {"cinematic", "romantic", "travel", "vlog", "vintage", "anime"}

\* style identifiers orchestrate and the stage functions are called with
StyleIds == VALID_STYLES \cup {"", "noir"} \cup ObjectPrototypeKeys

\* the styles of the jobs the whole pipeline is run for
JobStyles == {"romantic", "vlog"}

\* ---- storyboard request -----------------------------------------------------
PHOTO_NODE_IDS ==
  <<"137", "141", "48", "148", "152", "172", "171", "166", "167", "168">>

Node(nodeId, fieldName, fieldValue) ==
  [nodeId |-> nodeId, fieldName |-> fieldName, fieldValue |-> fieldValue]

\* variant: every photo fills two adjacent slots
PhotoSlotPairs(i, n) == (i \div 2) % n

\* variant: slots past the end of the list repeat the last photo
PhotoSlotClamped(i, n) == Min(i, n - 1)

\* i % rhPhotoNames.length
PhotoSlot(i, n) == i % n

\* the nodeInfoList generateStoryboard builds
StoryboardNodeInfoList(names, prompts) ==
  [i \in 1..Len(PHOTO_NODE_IDS) |->
     Node(PHOTO_NODE_IDS[i], "image", names[PhotoSlot(i - 1, Len(names)) + 1])]
  \o <<Node("161", "text", Get(prompts, "storyboardPrompt")),
       Node("160", "text", Get(prompts, "qualityPrompt")),
       Node("156", "aspectRatio", Str("9:16")),
       Node("156", "resolution", Str("4k")),
       Node("156", "channel", Str("Third-party"))>>

\* ---- storyboard grid --------------------------------------------------------
\* the storyboard the pipeline's request asks for: aspect ratio 9:16
StoryboardImage == [width |-> 9, height |-> 16]

\* Math.floor(width / 3), Math.floor(height / 3)
CellW(img) == img.width \div 3
CellH(img) == img.height \div 3

\* variant: the grid is walked column by column
ExtractAreaColumnMajor(idx, img) ==
  [left |-> (idx \div 3) * CellW(img), top |-> (idx % 3) * CellH(img),
   width |-> CellW(img), height |-> CellH(img)]

\* the argument of extract() for idx = row * 3 + col
ExtractArea(idx, img) ==
  [left |-> (idx % 3) * CellW(img), top |-> (idx \div 3) * CellH(img),
   width |-> CellW(img), height |-> CellH(img)]

\* sharp rejects an area without pixels
BadExtractArea(area) == area.width = 0 \/ area.height = 0

\* ---- error messages ---------------------------------------------------------
\* `RH task ${taskId} failed: ${result.errorMessage ?? "unknown"}`
RhTaskFailedError(task) == Error("RH task {task} failed: unknown", Null, task, 0)
\* variant: the service's message is dropped
RhTaskFailedWithUnknown(task, msg) == RhTaskFailedError(task)

\* the same, result.errorMessage being msg (Null: not set)
RhTaskFailedWith(task, msg) ==
  IF msg = Null THEN RhTaskFailedError(task)
  ELSE Error("RH task {task} failed: {url}", msg, task, 0)
\* variant: the timeout error does not name the task
RhTaskTimeoutErrorAnonymous(task, timeoutMs) ==
  Error("RH task {task} timed out after {num}ms", Null, 0, timeoutMs)

\* `RH task ${taskId} timed out after ${timeoutMs}ms`
RhTaskTimeoutError(task, timeoutMs) ==
  Error("RH task {task} timed out after {num}ms", Null, task, timeoutMs)
\* `RH query HTTP ${res.status}: ${text}`
RhQueryHttpError == Error("RH query HTTP {num}", Null, 0, 500)
\* what fetch rejects with when the request does not reach the service
RhQueryNetworkError == Error("fetch failed", Null, 0, 0)
\* `RH submit workflow HTTP ${res.status}: ${text}`
RhSubmitHttpError == Error("RH submit workflow HTTP {num}", Null, 0, 500)
\* `Video task ${taskId} returned no output URL`
VideoNoOutputError(task) ==
  Error("Video task {task} returned no output URL", Null, task, 0)

VARIABLES
  store,        \* job id -> row of vlog_job
  jobId,        \* orchestrate's jobId argument
  photoUrls,    \* orchestrate's photoUrls argument
  pc,           \* position of the call in progress
  runs,         \* number of orchestrate invocations so far
  outcome,      \* how the last orchestrate invocation ended
  err,          \* the error caught by orchestrate's catch block
  started,      \* stages started by the current invocation, in order
  returned,     \* stages that returned successfully in this invocation
  failedStage,  \* the stage that threw in this invocation, or "none"
  writes,       \* updateJob calls of this invocation: update and result
  rhNames,      \* uploadPhotosToRH: rhNames
  rhPhotoNames, \* orchestrate: rhPhotoNames
  storyboardUrl,\* orchestrate: storyboardUrl
  frames,       \* splitStoryboard: frameUrls
  frameUrls,    \* orchestrate: frameUrls (generateVideos' argument)
  rhFrameNames, \* generateVideos: rhFrameNames
  taskIds,      \* generateVideos: taskIds
  batchStart,   \* generateVideos: i of the submission loop
  answered,     \* submissions of the current batch that resolved, in
                \* completion order: <<position in batch, task id>>
  inflight,     \* frames whose submission is issued and awaited
  orphans,      \* number of submissions still unanswered that no call awaits
  reordered,    \* a submission of this call resolved before an earlier one
  taskInput,    \* remote service: video task id -> the frame it was given
  poll,         \* rhPollUntilDone: task, timeout, elapsed time, polls made
  clips,        \* generateVideos: videoUrls
  videoUrls,    \* orchestrate: videoUrls
  finalUrl,     \* orchestrate: finalUrl
  style,        \* orchestrate: style
  image,        \* the storyboard image the service renders: width, height
  stored,       \* object storage: the URLs of the frames it holds
  lastSubmit,   \* the last answer to a submission: <<stage, kind>>
  transfers,    \* uploadPhotosToRH: the requests made, <<kind, url>>
  nodeInfoList, \* generateStoryboard: nodeInfoList, as submitted
  rects,        \* splitStoryboard: the areas extracted so far
  lastReply,    \* rhPollUntilDone: result of the last rhQuery
  now,          \* Date.now()
  fsys,         \* local file system: directories, and files with their content
  assets,       \* the files present in public/bgm
  comp,         \* compositeVlog: the state of each invocation
  pollers,      \* rhPollUntilDone: the state of each of several callers
  queries,      \* remote service: task id -> status queries not yet answered
  ui            \* the browser: the page shown and the state of its component

vars == <<store, jobId, photoUrls, pc, runs, outcome, err, started, returned,
          failedStage, writes, rhNames, rhPhotoNames, storyboardUrl, frames,
          frameUrls, rhFrameNames, taskIds, batchStart, answered, inflight,
          orphans, reordered, taskInput, poll, clips, videoUrls, finalUrl,
          style, image, stored, lastSubmit, transfers, nodeInfoList, rects, lastReply,
          now, fsys, assets, comp, pollers, queries, ui>>

argVars == <<jobId, photoUrls, style>>
worldVars == <<image, stored, lastSubmit, transfers>>
reqVars == <<nodeInfoList, rects>>
\* state of the functions that are also run on their own
pollerVars == <<pollers, queries, ui>>
unitVars == <<lastReply, now, fsys, assets, comp, pollers, queries, ui>>
histVars == <<started, returned, failedStage>>
orchVars == <<store, runs, outcome, writes>>
resultVars == <<rhPhotoNames, storyboardUrl, frameUrls, videoUrls, finalUrl>>
netVars == <<inflight, orphans>>
videoVars == <<rhFrameNames, taskIds, batchStart, answered, taskInput, clips,
               reordered>>

NoOutcome == [kind |-> "none", value |-> Null]
NoPoll == [task |-> 0, timeoutMs |-> 0, elapsed |-> 0, polls |-> 0]
NoSubmit == <<"none", "none">>

\* invocations of compositeVlog that may run at the same time
Procs == {1, 2}
NoFiles == [dirs |-> {}, files |-> << >>]
\* compositeVlog has not been called
NotCalled ==
  [pc |-> "off", n |-> 0, style |-> "", dir |-> Null, created |-> FALSE,
   clips |-> 0, composed |-> Null, bgm |-> "pending", mixed |-> FALSE,
   uploaded |-> Null, pending |-> NoOutcome, rmTried |-> FALSE,
   result |-> NoOutcome, filter |-> [video |-> << >>, audio |-> << >>],
   vsec |-> 0, asec |-> 0, probed |-> FALSE, duration |-> 0, key |-> Null,
   bgmFilter |-> [trimEnd |-> 0, fadeStart |-> 0, fadeLen |-> 0]]

\* no page of the application is open
NoBrowser ==
  [page |-> "none", jobStatus |-> "pending", errorMsg |-> FALSE,
   effectDue |-> FALSE, interval |-> FALSE, plain |-> 0, owner |-> 0,
   stale |-> 0, timers |-> 0, result |-> "off", videoUrl |-> Null,
   seenTerminal |-> FALSE, askedAfterTerminal |-> FALSE]

\* rhPollUntilDone has not been called by this caller
NoPoller ==
  [pc |-> "off", task |-> 0, timeoutMs |-> 0, elapsed |-> 0, latency |-> 0,
   waited |-> 0, asked |-> FALSE, result |-> NoOutcome]
\* the service has no status query to answer
NoQueries == [t \in Procs |-> 0]

NoReply == [status |-> "", results |-> << >>, errorMessage |-> Null]

\* what the caller of rhQuery reads of its answer: the status and, of a
\* SUCCESS, the results
Reply(status, results) ==
  [status |-> status,
   results |-> IF status = "SUCCESS" THEN results ELSE << >>,
   errorMessage |-> Null]

\* none of the functions that are also run on their own is running
UnitsIdle ==
  /\ lastReply = NoReply
  /\ now = 0
  /\ fsys = NoFiles
  /\ assets = {}
  /\ comp = [p \in Procs |-> NotCalled]
  /\ pollers = [p \in Procs |-> NoPoller]
  /\ queries = NoQueries
  /\ ui = NoBrowser

\* the locals of the stage functions, before a call and after it has ended
LocalsCleared ==
  /\ rhNames' = << >>
  /\ frames' = << >>
  /\ nodeInfoList' = << >>
  /\ rects' = << >>
  /\ rhFrameNames' = << >>
  /\ taskIds' = << >>
  /\ batchStart' = 0
  /\ answered' = << >>
  /\ taskInput' = << >>
  /\ reordered' = FALSE
  /\ poll' = NoPoll
  /\ clips' = << >>

ResultsCleared ==
  /\ rhPhotoNames' = << >>
  /\ storyboardUrl' = Null
  /\ frameUrls' = << >>
  /\ videoUrls' = << >>
  /\ finalUrl' = Null

Init ==
  /\ store = [j \in ExistingJobs |-> createJob]
  /\ jobId \in JobIds
  /\ \E n \in 1..MaxPhotos : photoUrls = [i \in 1..n |-> PhotoUrl(i)]
  /\ pc = "idle"
  /\ runs = 0
  /\ outcome = NoOutcome
  /\ err = NoError
  /\ started = << >>
  /\ returned = << >>
  /\ failedStage = "none"
  /\ writes = << >>
  /\ rhNames = << >>
  /\ rhPhotoNames = << >>
  /\ storyboardUrl = Null
  /\ frames = << >>
  /\ frameUrls = << >>
  /\ rhFrameNames = << >>
  /\ taskIds = << >>
  /\ batchStart = 0
  /\ answered = << >>
  /\ inflight = {}
  /\ orphans = 0
  /\ reordered = FALSE
  /\ taskInput = << >>
  /\ poll = NoPoll
  /\ clips = << >>
  /\ videoUrls = << >>
  /\ finalUrl = Null
  /\ style \in JobStyles
  /\ image = StoryboardImage
  /\ stored = {}
  /\ lastSubmit = NoSubmit
  /\ transfers = << >>
  /\ nodeInfoList = << >>
  /\ rects = << >>
  /\ UnitsIdle

\* a stage throws e: its locals are gone, orchestrate's catch block runs
Throw(stage, e) ==
  /\ err' = e
  /\ failedStage' = stage
  /\ pc' = "catch"
  /\ LocalsCleared
  /\ UNCHANGED <<started, returned>>

\* a stage returns: orchestrate makes the next call
Return(stage) ==
  /\ returned' = Append(returned, stage)
  /\ started' = IF StageAfter(stage) = "persist" THEN started
                ELSE Append(started, StageAfter(stage))
  /\ pc' = StagePc(StageAfter(stage))
  /\ UNCHANGED <<err, failedStage>>

\* ---- orchestrate ---------------------------------------------------------
\* entry: the caller invokes orchestrate and the status "processing" is
\* written.  The caller invokes orchestrate for a job once and may invoke it
\* again, with the same arguments, after an invocation that threw.
orchestrate(storeOk) ==
  /\ pc = "idle"
  /\ runs < MaxRuns
  /\ outcome.kind # "returned"
  /\ runs' = runs + 1
  /\ outcome' = [kind |-> "pending", value |-> Null]
  /\ writes' = <<[update |-> ProcessingUpdate, ok |-> storeOk]>>
  /\ returned' = << >>
  /\ failedStage' = "none"
  /\ LocalsCleared
  /\ ResultsCleared
  /\ IF storeOk
       THEN /\ store' = updateJob(store, jobId, ProcessingUpdate)
            /\ started' = <<"upload">>
            /\ pc' = StagePc("upload")
            /\ err' = NoError
       ELSE /\ store' = store
            /\ started' = << >>
            /\ pc' = "catch"
            /\ err' = StoreError
  /\ lastSubmit' = NoSubmit
  /\ transfers' = << >>
  /\ lastReply' = NoReply
  /\ UNCHANGED <<argVars, image, stored, now, fsys, assets, comp, pollerVars,
                 netVars>>

\* after compositeVlog returned: write "completed" and return finalUrl
orchestrate_complete(storeOk) ==
  /\ pc = "persist"
  /\ writes' = Append(writes, [update |-> CompletedUpdate(finalUrl),
                               ok |-> storeOk])
  /\ store' = IF storeOk
                THEN updateJob(store, jobId, CompletedUpdate(finalUrl))
                ELSE store
  /\ IF CompletedWriteThrows(storeOk)
       THEN /\ err' = StoreError
            /\ pc' = "catch"
            /\ outcome' = outcome
       ELSE /\ err' = err
            /\ pc' = "idle"
            /\ outcome' = [kind |-> "returned", value |-> finalUrl]
  /\ UNCHANGED <<argVars, worldVars, unitVars, runs, histVars, rhNames, frames, reqVars, videoVars,
                 netVars, poll, resultVars>>

\* catch (err): write "failed" with the message, swallow a failure of that
\* write, rethrow
orchestrate_catch(storeOk) ==
  /\ pc = "catch"
  /\ writes' = Append(writes, [update |-> FailedUpdate(ErrMsg(err)),
                               ok |-> storeOk])
  /\ store' = IF storeOk
                THEN updateJob(store, jobId, FailedUpdate(ErrMsg(err)))
                ELSE store
  /\ outcome' = [kind |-> "threw", value |-> Rethrown(err, storeOk)]
  /\ pc' = "idle"
  /\ UNCHANGED <<argVars, worldVars, unitVars, runs, err, histVars, rhNames, frames, reqVars, videoVars,
                 netVars, poll, resultVars>>

\* ---- uploadPhotosToRH ------------------------------------------------------
\* the stage on whose behalf uploadPhotosToRH runs, and its argument
UploadStage == IF pc = "upload" THEN "upload" ELSE "video"
UploadUrls == IF pc = "upload" THEN photoUrls ELSE frameUrls

UploadResults == {"ok", "download", "http", "code", "noname"}

\* for (const url of photoUrls): the url of the iteration that follows the
\* ones that pushed names
NextPhotoFromEnd(urls, names) == urls[Len(urls) - Len(names)]

NextPhoto(urls, names) == urls[Len(names) + 1]

\* the requests of one iteration: fetch(url), then, unless that failed, the
\* POST of the downloaded bytes to the service's upload endpoint
Requests(url, res) ==
  IF res = "download" THEN << <<"download", url>> >>
  ELSE << <<"download", url>>, <<"upload", url>> >>

\* one iteration of the for loop: download the photo, upload it to the service
uploadPhotosToRH(res) ==
  /\ pc \in {"upload", "v_upload"}
  /\ Len(rhNames) < Len(UploadUrls)
  /\ LET url == NextPhoto(UploadUrls, rhNames) IN
       /\ transfers' = transfers \o Requests(url, res)
       /\ CASE res = "ok" ->
              /\ rhNames' = Append(rhNames, RhFileName(url))
              /\ UNCHANGED <<pc, err, histVars, frames, reqVars, videoVars, poll>>
         [] res = "download" ->
              Throw(UploadStage, Error("Failed to download photo: {url} ({num})",
                                 url, 0, 500))
         [] res = "http" ->
              Throw(UploadStage, Error("RH upload failed ({num})", Null, 0, 500))
         [] res = "code" ->
              Throw(UploadStage, Error("RH upload error: unknown", Null, 0, 0))
         [] res = "noname" ->
              Throw(UploadStage, Error("RH upload returned no fileName", Null, 0, 0))
  /\ UNCHANGED <<argVars, image, stored, lastSubmit, unitVars, orchVars,
                 resultVars, netVars>>

\* return rhNames, to orchestrate (step 1)
uploadPhotosToRH_return ==
  /\ pc = "upload"
  /\ Len(rhNames) = Len(photoUrls)
  /\ rhPhotoNames' = rhNames
  /\ rhNames' = << >>
  /\ Return("upload")
  /\ UNCHANGED <<argVars, worldVars, unitVars, orchVars, storyboardUrl, frameUrls, videoUrls,
                 finalUrl, frames, reqVars, videoVars, netVars, poll>>

\* return rhNames, to generateVideos
generateVideos_uploaded ==
  /\ pc = "v_upload"
  /\ Len(rhNames) = Len(frameUrls)
  /\ rhFrameNames' = rhNames
  /\ rhNames' = << >>
  /\ batchStart' = 0
  /\ pc' = "v_submit"
  /\ UNCHANGED <<argVars, worldVars, unitVars, orchVars, err, histVars, resultVars, frames, reqVars, taskIds,
                 answered, taskInput, clips, netVars, poll,
                 reordered>>

\* ---- rhPollUntilDone ------------------------------------------------------
NewPoll(task, timeoutMs) ==
  [task |-> task, timeoutMs |-> timeoutMs, elapsed |-> 0, polls |-> 0]

\* time a status query may take
QueryLatencies == {0, VIDEO_POLL_TIMEOUT_MS}

\* variant: no time passes between two queries
SleptWithoutWaiting(p, latency) == p

\* after a non-terminal reply: await sleep(POLL_INTERVAL_MS)
Slept(p, latency) ==
  [p EXCEPT !.elapsed = Min(p.elapsed + latency + POLL_INTERVAL_MS,
                            p.timeoutMs),
            !.polls = p.polls + 1]

\* while (Date.now() < deadline)
BeforeDeadline(p) == p.elapsed < p.timeoutMs

QueryReplies == {"SUCCESS", "FAILED", "RUNNING", "HTTP"}

\* the ways a status query of the pipeline ends: a reply, or "NETWORK": the
\* fetch of rhQuery rejects
QueryOutcomes == QueryReplies \cup {"NETWORK"}

\* variant: a query that fails counts as "not done yet" and is asked again
QueryRetried(reply) == FALSE

\* rhQuery throws (if (!res.ok) throw, or fetch rejects) and rhPollUntilDone,
\* which awaits it outside any try, throws with it
QueryThrows(reply) == reply \in {"HTTP", "NETWORK"}

\* the error rhQuery throws
QueryError(reply) ==
  IF reply = "HTTP" THEN RhQueryHttpError ELSE RhQueryNetworkError

\* ---- generateStoryboard ---------------------------------------------------
\* answers to a submission: accepted with a task id; non-2xx; a body that is
\* not JSON; a body without taskId; a body with a non-zero service code and
\* no taskId; a body with a non-zero service code and a taskId
SubmitResults == {"ok", "http", "malformed", "notask", "code", "code_task"}

\* one answer for each way a submission can end: accepted, thrown by
\* rhSubmitWorkflow, refused by its caller
SubmitOutcomes == {"ok", "http", "notask"}

\* rhSubmitWorkflow throws: !res.ok, or res.json() rejects
SubmitThrows(res) == res \in {"http", "malformed"}

\* result.taskId is set
HasTaskId(res) == res \in {"ok", "code_task"}

\* the error rhSubmitWorkflow throws
SubmitError(res) ==
  IF res = "http" THEN RhSubmitHttpError
  ELSE Error("Unexpected token in JSON", Null, 0, 0)

generateStoryboard_submit(res) ==
  /\ pc = "sb_submit"
  /\ lastSubmit' = <<"storyboard", res>>
  /\ CASE SubmitThrows(res) -> Throw("storyboard", SubmitError(res))
       [] ~SubmitThrows(res) /\ ~HasTaskId(res) ->
            Throw("storyboard",
                  Error("Banana Pro submit returned no taskId", Null, 0, 0))
       [] ~SubmitThrows(res) /\ HasTaskId(res) ->
            /\ nodeInfoList' =
                 StoryboardNodeInfoList(rhPhotoNames, getStylePrompts(style))
            /\ poll' = NewPoll(StoryboardTaskId, POLL_TIMEOUT_MS)
            /\ pc' = "sb_poll"
            /\ UNCHANGED <<err, histVars, rhNames, frames, rects, videoVars>>
  /\ UNCHANGED <<argVars, image, stored, transfers, unitVars, orchVars, resultVars,
                 netVars>>

\* one iteration of rhPollUntilDone(taskId) and, on SUCCESS, the rest of
\* generateStoryboard
generateStoryboard_poll(reply, results, latency) ==
  /\ pc = "sb_poll"
  /\ BeforeDeadline(poll)
  /\ CASE reply = "SUCCESS" ->
            IF FirstUrl(results) = Null
              THEN /\ Throw("storyboard",
                            Error("Storyboard task returned no output URL",
                                  Null, 0, 0))
                   /\ UNCHANGED resultVars
              ELSE /\ storyboardUrl' = FirstUrl(results)
                   /\ poll' = NoPoll
                   /\ Return("storyboard")
                   /\ UNCHANGED <<rhPhotoNames, frameUrls, videoUrls, finalUrl,
                                  rhNames, frames, reqVars, videoVars>>
       [] reply = "FAILED" ->
            /\ Throw("storyboard", RhTaskFailedError(poll.task))
            /\ UNCHANGED resultVars
       [] QueryThrows(reply) ->
            /\ Throw("storyboard", QueryError(reply))
            /\ UNCHANGED resultVars
       [] ~QueryThrows(reply) /\ reply \notin {"SUCCESS", "FAILED"} ->
            /\ poll.polls < MaxPolls
            /\ poll' = Slept(poll, latency)
            /\ UNCHANGED <<pc, err, histVars, resultVars, rhNames, frames, reqVars,
                           videoVars>>
  /\ lastReply' = Reply(reply, results)
  /\ UNCHANGED <<argVars, worldVars, now, fsys, assets, comp, pollerVars, orchVars,
                 netVars>>

\* the deadline has passed at the head of the loop
generateStoryboard_timeout ==
  /\ pc = "sb_poll"
  /\ ~BeforeDeadline(poll)
  /\ Throw("storyboard", RhTaskTimeoutError(poll.task, poll.timeoutMs))
  /\ UNCHANGED <<argVars, worldVars, unitVars, orchVars, resultVars, netVars>>

\* ---- splitStoryboard ------------------------------------------------------
\* download the storyboard and read its dimensions
splitStoryboard_download(res) ==
  /\ pc = "split"
  /\ CASE res = "ok" ->
            /\ pc' = "split_frames"
            /\ UNCHANGED <<err, histVars, rhNames, frames, reqVars, videoVars, poll>>
       [] res = "download" ->
            Throw("split",
                  Error("Failed to download storyboard: {num}", Null, 0, 500))
       [] res = "decode" ->
            Throw("split", Error("Input buffer contains unsupported image format",
                                 Null, 0, 0))
  /\ UNCHANGED <<argVars, worldVars, unitVars, orchVars, resultVars, netVars>>

\* outcomes of storage.uploadFile: stored and a url returned; not stored;
\* stored but no url returned
SplitUploadResults == {"ok", "upload", "nourl"}

\* result.url
UploadUrl(res, idx) == IF res = "ok" THEN FrameUrl(idx) ELSE Null

\* variant: only result.success is tested
UploadFailedOnSuccessOnly(res, idx) == res = "upload"

\* !result.success || !result.url
UploadFailed(res, idx) == res = "upload" \/ UploadUrl(res, idx) = Null

\* one cell of the 3x3 grid: extract and upload; return after the ninth
splitStoryboard_frame(res) ==
  /\ pc = "split_frames"
  /\ LET idx == Len(frames)
         area == ExtractArea(idx, image)
         saved == IF res = "upload" THEN stored
                  ELSE stored \cup {FrameUrl(idx)}
     IN
       CASE BadExtractArea(area) ->
              /\ Throw("split",
                       Error("extract_area: bad extract area", Null, 0, 0))
              /\ UNCHANGED <<resultVars, stored>>
         [] ~BadExtractArea(area) /\ UploadFailed(res, idx) ->
              /\ Throw("split",
                       Error(IF res = "upload"
                               THEN "Failed to upload frame {num}: storage error"
                               ELSE "Failed to upload frame {num}: undefined",
                             Null, 0, idx))
              /\ stored' = saved
              /\ UNCHANGED resultVars
         [] ~BadExtractArea(area) /\ ~UploadFailed(res, idx)
                                 /\ idx + 1 < 3 * 3 ->
              /\ frames' = Append(frames, UploadUrl(res, idx))
              /\ rects' = Append(rects, area)
              /\ stored' = saved
              /\ UNCHANGED <<pc, err, histVars, resultVars, rhNames,
                             nodeInfoList, videoVars, poll>>
         [] ~BadExtractArea(area) /\ ~UploadFailed(res, idx)
                                 /\ idx + 1 = 3 * 3 ->
              /\ frameUrls' = Append(frames, UploadUrl(res, idx))
              /\ frames' = << >>
              /\ rects' = Append(rects, area)
              /\ stored' = saved
              /\ Return("split")
              /\ UNCHANGED <<rhPhotoNames, storyboardUrl, videoUrls, finalUrl,
                             rhNames, nodeInfoList, videoVars, poll>>
  /\ UNCHANGED <<argVars, image, lastSubmit, transfers, unitVars, orchVars,
                 netVars>>

\* ---- generateVideos -------------------------------------------------------
\* variant: all remaining frames are submitted at once
BatchOfAllRemaining(i, n) == (i + 1) .. n

\* rhFrameNames.slice(i, i + MAX_VIDEO_CONCURRENCY), as frame numbers
Batch(i, n) == (i + 1) .. Min(i + MAX_VIDEO_CONCURRENCY, n)

\* variant: the task ids are collected in the order the submissions resolved
PromiseAllInCompletionOrder(size, done) == [p \in 1..size |-> done[p][2]]

\* await Promise.all(batch.map(..)): the task ids in the order of the batch,
\* whatever the order in which the submissions resolved
PromiseAll(size, done) ==
  [p \in 1..size |->
     (CHOOSE a \in {done[x] : x \in 1..Len(done)} : a[1] = p)[2]]

\* the loop header's step, i += MAX_VIDEO_CONCURRENCY
NextBatchStartOverlapping(i) == i + MAX_VIDEO_CONCURRENCY - 1

NextBatchStart(i) == i + MAX_VIDEO_CONCURRENCY

\* for (const taskId of taskIds): the k-th task to be polled
PollOrderReversed(ids, k) == ids[Len(ids) + 1 - k]

PollOrder(ids, k) == ids[k]

\* batch.map(frameName => submitVideoTask(..)): every submission of the batch
\* is issued before any of them is answered
generateVideos_submitBatch ==
  /\ pc = "v_submit"
  /\ batchStart < Len(rhFrameNames)
  /\ inflight' = Batch(batchStart, Len(rhFrameNames))
  /\ orphans' = orphans
  /\ answered' = << >>
  /\ pc' = "v_await"
  /\ UNCHANGED <<argVars, worldVars, unitVars, orchVars, err, histVars, resultVars, rhNames, frames, reqVars,
                 rhFrameNames, taskIds, batchStart, taskInput, clips, poll,
                 reordered>>

\* a submission of the current batch is answered; when one fails Promise.all
\* rejects at once and the rest of the batch is left unanswered and unawaited
submitVideoTask(k, res) ==
  /\ pc = "v_await"
  /\ k \in inflight
  /\ LET size == Cardinality(Batch(batchStart, Len(rhFrameNames)))
         done == Append(answered, <<k - batchStart, VideoTaskId(k)>>)
         ids == taskIds \o PromiseAll(size, done)
         rest == inflight \ {k}
     IN
       CASE HasTaskId(res) /\ Len(done) < size ->
              /\ answered' = done
              /\ taskInput' = (VideoTaskId(k) :> rhFrameNames[k]) @@ taskInput
              /\ inflight' = rest
              /\ reordered' = (reordered \/ \E j \in rest : j < k)
              /\ UNCHANGED <<pc, err, histVars, rhNames, frames, reqVars, rhFrameNames,
                             taskIds, batchStart, clips, poll, orphans>>
         [] HasTaskId(res) /\ Len(done) = size ->
              /\ answered' = << >>
              /\ taskInput' = (VideoTaskId(k) :> rhFrameNames[k]) @@ taskInput
              /\ inflight' = rest
              /\ reordered' = (reordered \/ \E j \in rest : j < k)
              /\ taskIds' = ids
              /\ batchStart' = NextBatchStart(batchStart)
              /\ IF NextBatchStart(batchStart) < Len(rhFrameNames)
                   THEN /\ pc' = "v_submit"
                        /\ poll' = poll
                   ELSE /\ pc' = "v_poll"
                        /\ poll' = NewPoll(PollOrder(ids, 1),
                                           VIDEO_POLL_TIMEOUT_MS)
              /\ UNCHANGED <<err, histVars, rhNames, frames, reqVars, rhFrameNames,
                             clips, orphans>>
         [] SubmitThrows(res) ->
              /\ Throw("video", SubmitError(res))
              /\ inflight' = {}
              /\ orphans' = orphans + Cardinality(rest)
         [] ~SubmitThrows(res) /\ ~HasTaskId(res) ->
              /\ Throw("video",
                       Error("img2video submit returned no taskId", Null, 0, 0))
              /\ inflight' = {}
              /\ orphans' = orphans + Cardinality(rest)
  /\ lastSubmit' = <<"video", res>>
  /\ UNCHANGED <<argVars, image, stored, transfers, unitVars, orchVars,
                 resultVars>>

\* the answer to a submission that no call awaits any more: it is dropped
submitVideoTask_orphan ==
  /\ orphans > 0
  /\ orphans' = orphans - 1
  /\ UNCHANGED <<argVars, worldVars, unitVars, orchVars, pc, err, histVars, resultVars, rhNames,
                 frames, reqVars, videoVars, poll, inflight>>

\* one iteration of rhPollUntilDone(taskId, VIDEO_POLL_TIMEOUT_MS) and, on
\* SUCCESS, the rest of the body of generateVideos' poll loop
generateVideos_poll(reply, results, latency) ==
  /\ pc = "v_poll"
  /\ BeforeDeadline(poll)
  /\ LET urls == Append(clips, FirstUrl(results)) IN
       CASE reply = "SUCCESS" /\ FirstUrl(results) = Null ->
              /\ Throw("video", VideoNoOutputError(poll.task))
              /\ UNCHANGED resultVars
         [] reply = "SUCCESS" /\ FirstUrl(results) # Null
                              /\ Len(urls) < Len(taskIds) ->
              /\ clips' = urls
              /\ poll' = NewPoll(PollOrder(taskIds, Len(urls) + 1),
                                 VIDEO_POLL_TIMEOUT_MS)
              /\ UNCHANGED <<pc, err, histVars, resultVars, rhNames, frames, reqVars,
                             rhFrameNames, taskIds, batchStart, answered,
                             taskInput,
                 reordered>>
         [] reply = "SUCCESS" /\ FirstUrl(results) # Null
                              /\ Len(urls) = Len(taskIds) ->
              /\ videoUrls' = urls
              /\ clips' = << >>
              /\ poll' = NoPoll
              /\ Return("video")
              /\ UNCHANGED <<rhPhotoNames, storyboardUrl, frameUrls, finalUrl,
                             rhNames, frames, reqVars, rhFrameNames, taskIds,
                             batchStart, answered, taskInput,
                 reordered>>
         [] reply = "FAILED" ->
              /\ Throw("video", RhTaskFailedError(poll.task))
              /\ UNCHANGED resultVars
         [] QueryThrows(reply) ->
              /\ Throw("video", QueryError(reply))
              /\ UNCHANGED resultVars
         [] ~QueryThrows(reply) /\ reply \notin {"SUCCESS", "FAILED"} ->
              /\ poll.polls < MaxPolls
              /\ poll' = Slept(poll, latency)
              /\ UNCHANGED <<pc, err, histVars, resultVars, rhNames, frames, reqVars,
                             videoVars>>
  /\ lastReply' = Reply(reply, results)
  /\ UNCHANGED <<argVars, worldVars, now, fsys, assets, comp, pollerVars, orchVars,
                 netVars>>

\* the deadline has passed at the head of the loop
generateVideos_timeout ==
  /\ pc = "v_poll"
  /\ ~BeforeDeadline(poll)
  /\ Throw("video", RhTaskTimeoutError(poll.task, poll.timeoutMs))
  /\ UNCHANGED <<argVars, worldVars, unitVars, orchVars, resultVars, netVars>>

\* ---- compositeVlog --------------------------------------------------------
CompositeResults == {"ok", "download", "ffmpeg", "upload"}

FinalUrl == <<"final">>

compositeVlog(res, i) ==
  /\ pc = "composite"
  /\ CASE res = "ok" ->
            /\ finalUrl' = FinalUrl
            /\ Return("composite")
            /\ UNCHANGED <<rhPhotoNames, storyboardUrl, frameUrls, videoUrls,
                           rhNames, frames, reqVars, videoVars, poll>>
       [] res = "download" ->
            /\ Throw("composite",
                     Error("Failed to download video {num}: 500", Null, 0, i))
            /\ UNCHANGED resultVars
       [] res = "ffmpeg" ->
            /\ Throw("composite", Error("Command failed: ffmpeg", Null, 0, 0))
            /\ UNCHANGED resultVars
       [] res = "upload" ->
            /\ Throw("composite",
                     Error("Failed to upload final video: storage error",
                           Null, 0, 0))
            /\ UNCHANGED resultVars
  /\ UNCHANGED <<argVars, worldVars, unitVars, orchVars, netVars>>

\* ---- specifications -------------------------------------------------------
Next ==
  \/ \E ok \in BOOLEAN : orchestrate(ok)
  \/ \E res \in UploadResults : uploadPhotosToRH(res)
  \/ uploadPhotosToRH_return
  \/ \E res \in SubmitOutcomes : generateStoryboard_submit(res)
  \/ \E reply \in QueryOutcomes, latency \in QueryLatencies :
       \E results \in ResultLists(poll.task) :
         generateStoryboard_poll(reply, results, latency)
  \/ generateStoryboard_timeout
  \/ \E res \in {"ok", "download", "decode"} : splitStoryboard_download(res)
  \/ \E res \in {"ok", "upload"} : splitStoryboard_frame(res)
  \/ generateVideos_uploaded
  \/ generateVideos_submitBatch
  \/ \E k \in 1..Len(rhFrameNames), res \in SubmitOutcomes :
       submitVideoTask(k, res)
  \/ submitVideoTask_orphan
  \/ \E reply \in QueryOutcomes, latency \in QueryLatencies :
       \E results \in ResultLists(poll.task) :
         generateVideos_poll(reply, results, latency)
  \/ generateVideos_timeout
  \/ \E res \in CompositeResults, i \in 0..(Len(videoUrls) - 1) :
       compositeVlog(res, i)
  \/ \E ok \in BOOLEAN : orchestrate_complete(ok)
  \/ \E ok \in BOOLEAN : orchestrate_catch(ok)

Spec == Init /\ [][Next]_vars

\* generateVideos called on its own, for any number of frames
InitVideo ==
  /\ store = [j \in ExistingJobs |-> createJob]
  /\ jobId = "job-1"
  /\ photoUrls = << >>
  /\ pc = "v_upload"
  /\ runs = 0
  /\ outcome = NoOutcome
  /\ err = NoError
  /\ started = <<"video">>
  /\ returned = << >>
  /\ failedStage = "none"
  /\ writes = << >>
  /\ rhNames = << >>
  /\ rhPhotoNames = << >>
  /\ storyboardUrl = Null
  /\ frames = << >>
  /\ \E n \in 1..MaxFrames : frameUrls = [i \in 1..n |-> FrameUrl(i - 1)]
  /\ rhFrameNames = << >>
  /\ taskIds = << >>
  /\ batchStart = 0
  /\ answered = << >>
  /\ inflight = {}
  /\ orphans = 0
  /\ reordered = FALSE
  /\ taskInput = << >>
  /\ poll = NoPoll
  /\ clips = << >>
  /\ videoUrls = << >>
  /\ finalUrl = Null
  /\ style \in JobStyles
  /\ image = StoryboardImage
  /\ stored = {}
  /\ lastSubmit = NoSubmit
  /\ transfers = << >>
  /\ nodeInfoList = << >>
  /\ rects = << >>
  /\ UnitsIdle

NextVideo ==
  \/ \E res \in UploadResults : uploadPhotosToRH(res)
  \/ generateVideos_uploaded
  \/ generateVideos_submitBatch
  \/ \E k \in 1..Len(rhFrameNames), res \in SubmitResults :
       submitVideoTask(k, res)
  \/ submitVideoTask_orphan
  \/ \E reply \in QueryReplies, latency \in QueryLatencies :
       \E results \in ResultLists(poll.task) :
         generateVideos_poll(reply, results, latency)
  \/ generateVideos_timeout

SpecVideo == InitVideo /\ [][NextVideo]_vars

\* ---- the functions run on their own -----------------------------------------
\* everything outside the function under study is at rest
UnitBase ==
  /\ store = [j \in ExistingJobs |-> createJob]
  /\ jobId = "job-1"
  /\ photoUrls = << >>
  /\ runs = 0
  /\ err = NoError
  /\ started = << >>
  /\ returned = << >>
  /\ failedStage = "none"
  /\ writes = << >>
  /\ rhNames = << >>
  /\ frames = << >>
  /\ frameUrls = << >>
  /\ rhFrameNames = << >>
  /\ taskIds = << >>
  /\ batchStart = 0
  /\ answered = << >>
  /\ inflight = {}
  /\ orphans = 0
  /\ reordered = FALSE
  /\ taskInput = << >>
  /\ clips = << >>
  /\ finalUrl = Null
  /\ stored = {}
  /\ lastSubmit = NoSubmit
  /\ transfers = << >>
  /\ nodeInfoList = << >>
  /\ rects = << >>

\* ---- rhPollUntilDone on its own ----------------------------------------------
\* result.errorMessage of a reply: not set, or the service's message
QueryErrorMessages == {Null, <<"out of memory">>}

\* statuses a reply may report, and "HTTP": rhQuery throws
PollStatuses == QueryReplies \cup {"QUEUED"}

\* one iteration of the while loop: query, then return, throw or sleep
rhPollUntilDone_query(status, results, msg, latency) ==
  /\ pc = "poll"
  /\ BeforeDeadline(poll)
  /\ LET result == [status |-> status, results |-> results,
                    errorMessage |-> msg]
     IN
       /\ lastReply' = result
       /\ CASE status = "HTTP" ->
                 /\ outcome' = [kind |-> "threw", value |-> RhQueryHttpError]
                 /\ pc' = "idle"
                 /\ poll' = poll
            [] status = "SUCCESS" ->
                 /\ outcome' = [kind |-> "returned", value |-> result]
                 /\ pc' = "idle"
                 /\ poll' = poll
            [] status = "FAILED" ->
                 /\ outcome' = [kind |-> "threw",
                                value |-> RhTaskFailedWith(poll.task, msg)]
                 /\ pc' = "idle"
                 /\ poll' = poll
            [] OTHER ->
                 /\ poll' = Slept(poll, latency)
                 /\ UNCHANGED <<pc, outcome>>
  /\ UNCHANGED <<argVars, worldVars, store, runs, writes, err, histVars,
                 resultVars, rhNames, frames, reqVars, videoVars, netVars,
                 now, fsys, assets, comp, pollerVars>>

\* the loop condition fails: throw the timeout error
rhPollUntilDone_timeout ==
  /\ pc = "poll"
  /\ ~BeforeDeadline(poll)
  /\ outcome' = [kind |-> "threw",
                 value |-> RhTaskTimeoutError(poll.task, poll.timeoutMs)]
  /\ pc' = "idle"
  /\ UNCHANGED <<argVars, worldVars, unitVars, store, runs, writes, err,
                 histVars, resultVars, rhNames, frames, reqVars, videoVars,
                 netVars, poll>>

\* rhPollUntilDone(taskId) and rhPollUntilDone(taskId, VIDEO_POLL_TIMEOUT_MS)
InitPoll ==
  /\ UnitBase
  /\ pc = "poll"
  /\ outcome = NoOutcome
  /\ \E task \in 1..MaxTask, ms \in {POLL_TIMEOUT_MS, VIDEO_POLL_TIMEOUT_MS} :
       poll = NewPoll(task, ms)
  /\ style = "cinematic"
  /\ image = StoryboardImage
  /\ rhPhotoNames = << >>
  /\ storyboardUrl = Null
  /\ videoUrls = << >>
  /\ UnitsIdle

NextPoll ==
  \/ \E status \in PollStatuses, msg \in QueryErrorMessages,
        latency \in QueryLatencies :
       \E results \in ResultLists(poll.task) :
         rhPollUntilDone_query(status, results, msg, latency)
  \/ rhPollUntilDone_timeout

SpecPoll == InitPoll /\ [][NextPoll]_vars

\* a task that reports no terminal status, its status queries being answered
NextPollPending ==
  \/ \E status \in PollStatuses \ {"SUCCESS", "FAILED", "HTTP"},
        latency \in QueryLatencies :
       rhPollUntilDone_query(status, << >>, Null, latency)
  \/ rhPollUntilDone_timeout

\* the event loop runs the continuation of every settled await
SpecPollPending ==
  InitPoll /\ [][NextPollPending]_vars /\ WF_vars(NextPollPending)

\* ---- compositeVlog on its own ---------------------------------------------
BGM_MAP ==
  [cinematic |-> Str("cinematic.mp3"), romantic |-> Str("romantic.mp3"),
   travel |-> Str("travel.mp3")]

\* the files public/bgm may hold
BgmFiles == {BGM_MAP[k].str : k \in DOMAIN BGM_MAP}

\* join(tmpdir(), `picmotion_${Date.now()}`)
WorkDir(t) == <<"picmotion", t>>

\* join(workDir, `clip_${i}.mp4`), composed.mp4, final.mp4
ClipPath(dir, i) == <<dir, "clip", i>>
ComposedPath(dir) == <<dir, "composed", 0>>
OutputPath(dir) == <<dir, "final", 0>>

Exists(f, path) == path \in DOMAIN f.files
Content(f, path) == f.files[path]
\* fs.mkdir(dir, { recursive: true }): no error if the directory exists
MkDir(f, dir) == [f EXCEPT !.dirs = f.dirs \cup {dir}]
\* writing a file of a directory that exists
WriteFile(f, path, content) ==
  [f EXCEPT !.files = (path :> content) @@ f.files]
RemoveFile(f, path) ==
  [f EXCEPT !.files = [q \in DOMAIN f.files \ {path} |-> f.files[q]]]
\* fs.rename(from, to)
Rename(f, from, to) ==
  WriteFile(RemoveFile(f, from), to, Content(f, from))
\* fs.rm(dir, { recursive: true, force: true })
Rm(f, dir) ==
  [dirs |-> f.dirs \ {dir},
   files |-> [q \in {x \in DOMAIN f.files : x[1] # dir} |-> f.files[q]]]

\* variant: the asset is taken to exist whenever the style is mapped
ResolveBgmWithoutAccess(st, present) ==
  LET filename == Lookup(BGM_MAP, st) IN
    IF filename = Undefined THEN "none"
    ELSE IF filename.type # "string" THEN "error"
    ELSE "track"

\* resolveBgmPath: "none" for null, "track" for a path, "error" when join
\* is given something that is not a string
resolveBgmPath(st, present) ==
  LET filename == Lookup(BGM_MAP, st) IN
    IF filename = Undefined THEN "none"
    ELSE IF filename.type # "string" THEN "error"
    ELSE IF filename.str \in present THEN "track"
    ELSE "none"

\* variant: a failed removal of the work directory replaces the outcome
DeliveredUnlessRmFails(pending, rmOk) ==
  IF rmOk THEN pending
  ELSE [kind |-> "threw", value |-> Error("ENOTEMPTY: rm", Null, 0, 0)]

\* finally { await fs.rm(..).catch(() => {}) }: what the caller gets
Delivered(pending, rmOk) == pending

Thrown(e) == [kind |-> "threw", value |-> e]

\* an exception inside the try block: control goes to the finally block
Fail(c, e) == [c EXCEPT !.pc = "finally", !.pending = Thrown(e)]

\* execAsync(cmd, { timeout }): the time limit given for the tool, 0 (the
\* default of exec) standing for none
ExecTimeout ==
  [concat |-> 300000, probe |-> 0, mix |-> 120000]

\* the tool runs longer than any limit: with a limit exec kills it and
\* rejects, without one the await never settles
Overran(c, tool) ==
  IF ExecTimeout[tool] > 0
    THEN Fail(c, Error("Command failed: ffmpeg (killed)", Null, 0,
                       ExecTimeout[tool]))
    ELSE [c EXCEPT !.pc = "hung"]

\* const workDir = ...; await fs.mkdir(workDir, { recursive: true })
compositeVlog_mkdir(p, ok) ==
  /\ comp[p].pc = "mkdir"
  /\ LET dir == WorkDir(now) IN
       IF ok
         THEN /\ fsys' = MkDir(fsys, dir)
              /\ comp' = [comp EXCEPT ![p].dir = dir, ![p].created = TRUE,
                                      ![p].pc = "download"]
         ELSE /\ fsys' = fsys
              /\ comp' = [comp EXCEPT
                           ![p].dir = dir, ![p].pc = "done",
                           ![p].result = Thrown(Error("EACCES: mkdir",
                                                     Null, 0, 0))]
  /\ UNCHANGED <<now, assets>>

\* one iteration of the download loop
compositeVlog_download(p, res) ==
  /\ comp[p].pc = "download"
  /\ comp[p].clips < comp[p].n
  /\ LET c == comp[p]
         i == c.clips
     IN
       CASE res = "download" ->
              /\ comp' = [comp EXCEPT ![p] =
                           Fail(c, Error("Failed to download video {num}: 500",
                                         Null, 0, i))]
              /\ fsys' = fsys
         [] res = "ok" /\ c.dir \notin fsys.dirs ->
              /\ comp' = [comp EXCEPT ![p] =
                           Fail(c, Error("ENOENT: open", Null, 0, i))]
              /\ fsys' = fsys
         [] res = "ok" /\ c.dir \in fsys.dirs ->
              /\ fsys' = WriteFile(fsys, ClipPath(c.dir, i), <<"clip", p, i>>)
              /\ comp' = [comp EXCEPT ![p].clips = i + 1]
  /\ UNCHANGED <<now, assets>>

\* ---- the filter graph of the concatenation pass ---------------------------
\* stream labels: [i:v], [i:a], [v{i}], [vout], [aout]
VideoIn(i) == <<"in:v", i>>
AudioIn(i) == <<"in:a", i>>
Mid(i) == <<"v", i>>
VOut == <<"vout", 0>>
AOut == <<"aout", 0>>

\* const crossfadeDuration = 1
crossfadeDuration == 1
\* the length of a clip, in seconds, that the offsets assume (the literal 6)
ClipSeconds == 6

\* variant: the offsets of clips joined end to end
XfadeOffsetNoOverlap(i) == i * 6

\* offset=${i * 6 - crossfadeDuration * i}
XfadeOffset(i) == i * 6 - crossfadeDuration * i

\* i < clipPaths.length - 1 ? `[v${i}]` : "[vout]"
OutLabel(i, n) == IF i < n - 1 THEN Mid(i) ELSE VOut

\* the loop that pushes one xfade filter per clip after the first
RECURSIVE FilterPartsFrom(_, _, _, _)
FilterPartsFrom(i, n, currentLabel, filterParts) ==
  IF i < n
    THEN FilterPartsFrom(i + 1, n, OutLabel(i, n),
           Append(filterParts,
                  [in1 |-> currentLabel, in2 |-> VideoIn(i),
                   transition |-> "fade", duration |-> crossfadeDuration,
                   offset |-> XfadeOffset(i), out |-> OutLabel(i, n)]))
    ELSE filterParts

FilterParts(n) == FilterPartsFrom(1, n, VideoIn(0), << >>)

\* the inputs of concat=n=N:v=0:a=1[aout], in order
AudioFilter(n) == [i \in 1..n |-> AudioIn(i - 1)]

\* no filter graph: the single clip is copied
NoFilter == [video |-> << >>, audio |-> << >>]
FilterComplex(n) == [video |-> FilterParts(n), audio |-> AudioFilter(n)]

\* length of the stream a chain of xfade filters puts out: an xfade shows its
\* first input up to the offset and then, through the transition, the whole
\* of its second input
XfadeSeconds(parts) ==
  IF parts = << >> THEN ClipSeconds
  ELSE parts[Len(parts)].offset + ClipSeconds

\* length of the stream concat puts out: its inputs end to end
ConcatSeconds(inputs) == Len(inputs) * ClipSeconds

\* format=duration of a file: that of its longest stream
FormatDuration(c) == Max(c.vsec, c.asec)

\* the clips as the concatenation pass reads them
ClipsRead(f, c) == [i \in 1..c.n |-> Content(f, ClipPath(c.dir, i - 1))]
ClipsPresent(f, c) == \A i \in 0..(c.n - 1) : Exists(f, ClipPath(c.dir, i))

\* the concatenation pass: copyFile for one clip, ffmpeg xfade otherwise
compositeVlog_concat(p, res) ==
  /\ comp[p].pc = "download"
  /\ comp[p].clips = comp[p].n
  /\ LET c == comp[p]
         out == IF c.n = 1 THEN Content(fsys, ClipPath(c.dir, 0))
                ELSE <<"xfade", ClipsRead(fsys, c)>>
     IN
       CASE ~ClipsPresent(fsys, c) ->
              /\ comp' = [comp EXCEPT ![p] =
                           Fail(c, Error("ENOENT: clip", Null, 0, 0))]
              /\ fsys' = fsys
         [] ClipsPresent(fsys, c) /\ c.n = 1 ->
              /\ fsys' = WriteFile(fsys, ComposedPath(c.dir), out)
              /\ comp' = [comp EXCEPT ![p].composed = out, ![p].pc = "bgm",
                                      ![p].filter = NoFilter,
                                      ![p].vsec = ClipSeconds,
                                      ![p].asec = ClipSeconds]
         [] ClipsPresent(fsys, c) /\ res = "ok" /\ c.n > 1 ->
              /\ fsys' = WriteFile(fsys, ComposedPath(c.dir), out)
              /\ comp' = [comp EXCEPT
                           ![p].composed = out, ![p].pc = "bgm",
                           ![p].filter = FilterComplex(c.n),
                           ![p].vsec = XfadeSeconds(FilterParts(c.n)),
                           ![p].asec = ConcatSeconds(AudioFilter(c.n))]
         [] ClipsPresent(fsys, c) /\ res = "fail" /\ c.n > 1 ->
              /\ comp' = [comp EXCEPT ![p] =
                           Fail(c, Error("Command failed: ffmpeg", Null, 0, 0))]
              /\ fsys' = fsys
         [] ClipsPresent(fsys, c) /\ res = "timeout" /\ c.n > 1 ->
              /\ comp' = [comp EXCEPT ![p] = Overran(c, "concat")]
              /\ fsys' = fsys
  /\ UNCHANGED <<now, assets>>

\* const bgmPath = await resolveBgmPath(style)
compositeVlog_resolveBgm(p) ==
  /\ comp[p].pc = "bgm"
  /\ LET c == comp[p]
         r == resolveBgmPath(c.style, assets)
     IN
       comp' = [comp EXCEPT ![p] =
                  IF r = "error"
                    THEN Fail([c EXCEPT !.bgm = r],
                              Error("The path argument must be of type string",
                                    Null, 0, 0))
                    ELSE [c EXCEPT !.bgm = r, !.pc = "mix"]]
  /\ UNCHANGED <<now, fsys, assets>>

\* if (bgmPath): const duration = await getVideoDuration(composedPath)
compositeVlog_probe(p, res) ==
  /\ comp[p].pc = "mix"
  /\ comp[p].bgm = "track"
  /\ ~comp[p].probed
  /\ LET c == [comp[p] EXCEPT !.mixed = TRUE] IN
       comp' = [comp EXCEPT ![p] =
         CASE ~Exists(fsys, ComposedPath(c.dir)) \/ res = "fail" ->
                Fail(c, Error("Command failed: ffprobe", Null, 0, 0))
           [] Exists(fsys, ComposedPath(c.dir)) /\ res = "ok" ->
                [c EXCEPT !.probed = TRUE, !.duration = FormatDuration(c)]
           [] Exists(fsys, ComposedPath(c.dir)) /\ res = "nan" ->
                [c EXCEPT !.probed = TRUE, !.duration = 0]
           [] Exists(fsys, ComposedPath(c.dir)) /\ res = "overrun" ->
                Overran(c, "probe")]
  /\ UNCHANGED <<now, fsys, assets>>

\* const fadeOutStart = Math.max(0, duration - 5)
FadeOutStart(duration) == Max(0, duration - 5)

\* [1:a]atrim=0:${duration},afade=t=out:st=${fadeOutStart}:d=5: the end of
\* the trimmed track, the start and the length of its fade-out, in seconds
BgmFilter(duration) ==
  [trimEnd |-> duration, fadeStart |-> FadeOutStart(duration), fadeLen |-> 5]

\* if (bgmPath): the audio-mix pass; else: rename
compositeVlog_mix(p, res) ==
  /\ comp[p].pc = "mix"
  /\ comp[p].bgm = "none" \/ comp[p].probed
  /\ LET c == comp[p] IN
       CASE ~Exists(fsys, ComposedPath(c.dir)) ->
              /\ comp' = [comp EXCEPT ![p] =
                           Fail(c, Error("ENOENT: composed", Null, 0, 0))]
              /\ fsys' = fsys
         [] Exists(fsys, ComposedPath(c.dir)) /\ c.bgm = "none" ->
              /\ fsys' = Rename(fsys, ComposedPath(c.dir), OutputPath(c.dir))
              /\ comp' = [comp EXCEPT ![p].pc = "upload"]
         [] Exists(fsys, ComposedPath(c.dir)) /\ c.bgm = "track"
                                             /\ res = "ok" ->
              /\ fsys' = WriteFile(fsys, OutputPath(c.dir),
                                   <<"amix", Content(fsys, ComposedPath(c.dir)),
                                     Lookup(BGM_MAP, c.style).str>>)
              /\ comp' = [comp EXCEPT ![p].pc = "upload",
                                      ![p].bgmFilter = BgmFilter(c.duration)]
         [] Exists(fsys, ComposedPath(c.dir)) /\ c.bgm = "track"
                                             /\ res = "fail" ->
              /\ comp' = [comp EXCEPT ![p] =
                           Fail(c, Error("Command failed: ffmpeg", Null, 0, 0))]
              /\ fsys' = fsys
         [] Exists(fsys, ComposedPath(c.dir)) /\ c.bgm = "track"
                                             /\ res = "timeout" ->
              /\ comp' = [comp EXCEPT ![p] = Overran(c, "mix")]
              /\ fsys' = fsys
  /\ UNCHANGED <<now, assets>>

\* const key = `vlog/output/${Date.now()}_final.mp4`
OutputKey(t) == <<"vlog/output", t, "final.mp4">>

\* the url storage.uploadFile returns for the key `vlog/output/${t}_final.mp4`
FinalVideoUrl(t) == <<"final", t>>

\* read final.mp4, upload it, return result.url
compositeVlog_upload(p, res) ==
  /\ comp[p].pc = "upload"
  /\ LET c == comp[p] IN
       comp' = [comp EXCEPT ![p] =
         CASE ~Exists(fsys, OutputPath(c.dir)) ->
                Fail(c, Error("ENOENT: final", Null, 0, 0))
           [] Exists(fsys, OutputPath(c.dir)) /\ res = "ok" ->
                [c EXCEPT !.uploaded = Content(fsys, OutputPath(c.dir)),
                          !.key = OutputKey(now),
                          !.pending = [kind |-> "returned",
                                       value |-> FinalVideoUrl(now)],
                          !.pc = "finally"]
           [] Exists(fsys, OutputPath(c.dir)) /\ res = "upload" ->
                Fail(c, Error("Failed to upload final video: storage error",
                              Null, 0, 0))
           [] Exists(fsys, OutputPath(c.dir)) /\ res = "nourl" ->
                Fail([c EXCEPT !.uploaded = Content(fsys, OutputPath(c.dir)),
                               !.key = OutputKey(now)],
                     Error("Failed to upload final video: undefined",
                           Null, 0, 0))]
  /\ UNCHANGED <<now, fsys, assets>>

\* finally: remove the work directory, ignore a failure of the removal
compositeVlog_finally(p, rmOk) ==
  /\ comp[p].pc = "finally"
  /\ fsys' = IF rmOk THEN Rm(fsys, comp[p].dir) ELSE fsys
  /\ comp' = [comp EXCEPT ![p].rmTried = TRUE, ![p].pc = "done",
                          ![p].result = Delivered(comp[p].pending, rmOk)]
  /\ UNCHANGED <<now, assets>>

\* a millisecond passes
Tick ==
  /\ now < MaxClock
  /\ now' = now + 1
  /\ UNCHANGED <<fsys, assets, comp>>

\* what the stand-alone composite leaves alone
CompositeFrame ==
  UNCHANGED <<argVars, worldVars, orchVars, pc, err, histVars, resultVars,
              rhNames, frames, reqVars, videoVars, netVars, poll, lastReply,
              pollerVars>>

\* compositeVlog(videoUrls, style) called with n clips
Called(n, st) == [NotCalled EXCEPT !.pc = "mkdir", !.n = n, !.style = st]

CompositeBase ==
  /\ UnitBase
  /\ pc = "idle"
  /\ outcome = NoOutcome
  /\ poll = NoPoll
  /\ style = "cinematic"
  /\ image = StoryboardImage
  /\ rhPhotoNames = << >>
  /\ storyboardUrl = Null
  /\ videoUrls = << >>
  /\ lastReply = NoReply
  /\ now = 0
  /\ fsys = NoFiles
  /\ pollers = [p \in Procs |-> NoPoller]
  /\ queries = NoQueries
  /\ ui = NoBrowser

\* one invocation, any style, any set of assets
InitComposite ==
  /\ CompositeBase
  /\ assets \in SUBSET BgmFiles
  /\ \E n \in 1..MaxClips, st \in StyleIds :
       comp = [p \in Procs |-> IF p = 1 THEN Called(n, st) ELSE NotCalled]

NextComposite ==
  \/ \E p \in Procs, ok \in BOOLEAN : compositeVlog_mkdir(p, ok) /\ CompositeFrame
  \/ \E p \in Procs, res \in {"ok", "download"} :
       compositeVlog_download(p, res) /\ CompositeFrame
  \/ \E p \in Procs, res \in {"ok", "fail", "timeout"} :
       compositeVlog_concat(p, res) /\ CompositeFrame
  \/ \E p \in Procs : compositeVlog_resolveBgm(p) /\ CompositeFrame
  \/ \E p \in Procs, res \in {"ok", "nan", "fail", "overrun"} :
       compositeVlog_probe(p, res) /\ CompositeFrame
  \/ \E p \in Procs, res \in {"ok", "fail", "timeout"} :
       compositeVlog_mix(p, res) /\ CompositeFrame
  \/ \E p \in Procs, res \in {"ok", "upload", "nourl"} :
       compositeVlog_upload(p, res) /\ CompositeFrame
  \/ \E p \in Procs, rmOk \in BOOLEAN :
       compositeVlog_finally(p, rmOk) /\ CompositeFrame
  \/ Tick /\ CompositeFrame

SpecComposite == InitComposite /\ [][NextComposite]_vars

\* two jobs reach the composite stage at the same time
InitConcurrent ==
  /\ CompositeBase
  /\ assets = BgmFiles
  /\ \E n \in 1..2, st \in {"vlog", "travel"} :
       comp = [p \in Procs |-> Called(n, st)]

SpecConcurrent == InitConcurrent /\ [][NextComposite]_vars

\* ---- splitStoryboard on its own -------------------------------------------
\* splitStoryboard(storyboardUrl), the image being of any size up to MaxDim
InitSplit ==
  /\ UnitBase
  /\ pc = "split"
  /\ outcome = NoOutcome
  /\ poll = NoPoll
  /\ style = "cinematic"
  /\ \E w \in 1..MaxDim, h \in 1..MaxDim : image = [width |-> w, height |-> h]
  /\ rhPhotoNames = << >>
  /\ storyboardUrl = OutputUrl(StoryboardTaskId, 1)
  /\ videoUrls = << >>
  /\ UnitsIdle

NextSplit ==
  \/ \E res \in {"ok", "download", "decode"} : splitStoryboard_download(res)
  \/ \E res \in SplitUploadResults : splitStoryboard_frame(res)

SpecSplit == InitSplit /\ [][NextSplit]_vars

\* ---- generateStoryboard on its own ----------------------------------------
\* generateStoryboard(rhPhotoNames, style), for 1..MaxRefs names
InitStoryboard ==
  /\ UnitBase
  /\ pc = "sb_submit"
  /\ outcome = NoOutcome
  /\ poll = NoPoll
  /\ style \in StyleIds
  /\ image = StoryboardImage
  /\ \E n \in 1..MaxRefs :
       rhPhotoNames = [i \in 1..n |-> RhFileName(PhotoUrl(i))]
  /\ storyboardUrl = Null
  /\ videoUrls = << >>
  /\ UnitsIdle

NextStoryboard ==
  \/ \E res \in SubmitResults : generateStoryboard_submit(res)
  \/ \E reply \in QueryReplies, latency \in QueryLatencies :
       \E results \in ResultLists(poll.task) :
         generateStoryboard_poll(reply, results, latency)
  \/ generateStoryboard_timeout

SpecStoryboard == InitStoryboard /\ [][NextStoryboard]_vars

\* ---- properties ------------------------------------------------------------
Rank(status) ==
  CASE status = "pending" -> 0
    [] status = "processing" -> 1
    [] status \in {"completed", "failed"} -> 2

\* the orchestrate invocation has ended: it returned
Returned == pc = "idle" /\ outcome.kind = "returned"
\* the orchestrate invocation has ended: it threw
Threw == pc = "idle" /\ outcome.kind = "threw"
\* the last updateJob call of the invocation
LastWrite == writes[Len(writes)]
AllStages == <<"upload", "storyboard", "split", "video", "composite">>
IsPrefix(s, t) == Len(s) <= Len(t) /\ s = SubSeq(t, 1, Len(s))

\* C1: the persisted status of every job only moves forward along
\* pending -> processing -> {completed | failed}: no step of the system,
\* re-runs of orchestrate on the same job included, moves it backward, and
\* a failed job never changes status again.
C1_StatusMonotonic ==
  [][\A j \in DOMAIN store :
       /\ Rank(store'[j].status) >= Rank(store[j].status)
       /\ store[j].status = "failed" => store'[j].status = "failed"]_vars

\* C2: when a stage of orchestrate has failed, orchestrate fails to its
\* caller with that stage's error, the write it issues is status failed with
\* that error's message, and once the store has taken that write the job's
\* record is failed with errorMessage equal to that message.
C2_StageFailurePersisted ==
  (Threw /\ failedStage # "none") =>
     /\ outcome.value = err
     /\ LastWrite.update = [status |-> "failed", errorMessage |-> err.message]
     /\ (LastWrite.ok /\ jobId \in DOMAIN store) =>
          /\ store[jobId].status = "failed"
          /\ store[jobId].errorMessage = err.message

C2_Witness ==
  /\ Threw
  /\ failedStage = "split"
  /\ jobId \in DOMAIN store
  /\ store[jobId].status = "failed"
  /\ store[jobId].errorMessage.text = "Failed to upload frame {num}: storage error"
  /\ store[jobId].errorMessage.num = 4

\* C3: when all five stages have succeeded and the store has taken the write,
\* the job's record is completed with the composite stage's URL as result
\* URL and with a completion timestamp, and orchestrate returns that URL; no
\* record is ever completed without a result URL.
C3_CompletedWithResult ==
  /\ (pc = "idle" /\ returned = AllStages /\ writes[2].ok) =>
        /\ outcome = [kind |-> "returned", value |-> FinalUrl]
        /\ finalUrl = FinalUrl
        /\ jobId \in DOMAIN store =>
             /\ store[jobId].status = "completed"
             /\ store[jobId].videoUrl = FinalUrl
             /\ store[jobId].completedAt # Null
  /\ Returned => returned = AllStages /\ writes[2].ok
  /\ \A j \in DOMAIN store :
       store[j].status = "completed" => store[j].videoUrl # Null

C3_Witness ==
  /\ Returned
  /\ jobId = "job-1"
  /\ store[jobId].status = "completed"
  /\ runs = 2

\* C4: within one invocation the stages start in the order upload,
\* storyboard, split, video, composite, each at most once and only after the
\* one before it has returned; after a stage has failed no later stage starts.
C4_StageOrder ==
  /\ IsPrefix(started, AllStages)
  /\ IsPrefix(returned, started)
  /\ Len(started) <= Len(returned) + 1
  /\ failedStage # "none" =>
       /\ Len(started) = Len(returned) + 1
       /\ started[Len(started)] = failedStage
       /\ pc \in {"catch", "idle"}
  /\ pc \notin {"catch", "idle", "persist"} =>
       /\ Len(started) = Len(returned) + 1
       /\ pc \in {"upload"} => started[Len(started)] = "upload"
       /\ pc \in {"sb_submit", "sb_poll"} =>
            started[Len(started)] = "storyboard"
       /\ pc \in {"split", "split_frames"} => started[Len(started)] = "split"
       /\ pc \in {"v_upload", "v_submit", "v_await", "v_poll"} =>
            started[Len(started)] = "video"
       /\ pc = "composite" => started[Len(started)] = "composite"

C4_Witness ==
  /\ pc = "catch"
  /\ failedStage = "video"
  /\ started = <<"upload", "storyboard", "split", "video">>
  /\ returned = <<"upload", "storyboard", "split">>

C6_StoreFailureSwallowed ==
  (Threw /\ failedStage # "none" /\ ~LastWrite.ok) =>
     /\ outcome.value = err
     /\ outcome.value # StoreError

C6_Witness ==
  /\ Threw
  /\ failedStage = "storyboard"
  /\ ~LastWrite.ok
  /\ LastWrite.update.status = "failed"
  /\ jobId \in DOMAIN store
  /\ store[jobId].status = "processing"

\* C7: if all five stages have succeeded and the write of status completed is
\* rejected by the store, orchestrate does not return the final URL: it fails
\* with the store's error.
C7_CompletedWriteFailurePropagates ==
  (returned = AllStages /\ Len(writes) >= 2 /\ ~writes[2].ok) =>
     /\ pc \in {"catch", "idle"}
     /\ outcome.kind # "returned"
     /\ err = StoreError
     /\ pc = "idle" => outcome = [kind |-> "threw", value |-> StoreError]

C7_Witness ==
  /\ Threw
  /\ returned = AllStages
  /\ finalUrl = FinalUrl
  /\ ~writes[2].ok
  /\ outcome.value = StoreError

\* C8: a video task that times out or reports failure while it is polled
\* aborts the video stage: no clip is returned, the error names that task
\* (and, for a timeout, the timeout budget), the composite stage is not
\* started, and the job ends failed with that error's message.
C8_VideoTaskFailureAborts ==
  [][/\ (pc = "v_poll" /\ ~BeforeDeadline(poll) /\ pc' # "v_poll") =>
          /\ pc' = "catch"
          /\ failedStage' = "video"
          /\ err'.message.text = "RH task {task} timed out after {num}ms"
          /\ err'.message.task = poll.task
          /\ err'.message.num = 20 * 60000
     /\ (pc = "v_poll" /\ pc' = "catch"
           /\ err'.message.text = "RH task {task} failed: unknown") =>
          /\ failedStage' = "video"
          /\ err'.message.task = poll.task
     /\ (pc = "v_poll" /\ pc' = "catch") =>
          /\ \E i \in 1..Len(taskIds) : taskIds[i] = poll.task
          /\ clips' = << >>
     /\ failedStage' = "video" =>
          /\ pc' \in {"catch", "idle"}
          /\ videoUrls' = << >>
          /\ \A i \in 1..Len(started') : started'[i] # "composite"
     /\ (pc = "catch" /\ failedStage = "video" /\ pc' = "idle") =>
          /\ outcome'.kind = "threw"
          /\ outcome'.value = err
          /\ (LastWrite'.ok /\ jobId \in DOMAIN store) =>
               /\ store'[jobId].status = "failed"
               /\ store'[jobId].errorMessage = err.message
    ]_vars

\* task 5 of 9 (the task of the fifth frame) has timed out
C8_Witness ==
  /\ Threw
  /\ failedStage = "video"
  /\ err.message.text = "RH task {task} timed out after {num}ms"
  /\ err.message.task = VideoTaskId(5)
  /\ jobId \in DOMAIN store
  /\ store[jobId].status = "failed"
  /\ store[jobId].errorMessage = err.message

\* C9: during the video stage at most 3 task submissions are in flight at
\* any instant, for every number of frames and every order of the answers.
C9_AtMostThreeInFlight == Cardinality(inflight) + orphans <= 3

C9_Witness ==
  /\ Len(frameUrls) = 20
  /\ batchStart = 15
  /\ Cardinality(inflight) = 3
  /\ orphans = 0

\* C10: the video stage returns exactly one clip per frame, clip i being the
\* first output of the task that was submitted for frame i, whatever the
\* order in which the submissions of a batch were answered.
C10_ClipsInFrameOrder ==
  (pc = "composite") =>
     /\ Len(videoUrls) = Len(frameUrls)
     /\ \A i \in 1..Len(frameUrls) :
          \E t \in DOMAIN taskInput :
            /\ taskInput[t] = RhFileName(frameUrls[i])
            /\ videoUrls[i] = OutputUrl(t, 1)

C10_Witness ==
  /\ pc = "composite"
  /\ reordered
  /\ Len(frameUrls) = 8
  /\ Len(videoUrls) = 8

\* C11: rhPollUntilDone returns only when a status query reports SUCCESS
\* and then returns that query's result; when a query reports FAILED it
\* throws at once an error carrying the task id and the service's message;
\* for any other reported status it sleeps POLL_INTERVAL_MS and goes round
\* the loop again; when the loop finds the deadline passed it throws the
\* timeout error, which names the task id and the timeout budget.
C11_PollContract ==
  [][pc = "poll" =>
       IF BeforeDeadline(poll)
         THEN CASE lastReply'.status = "SUCCESS" ->
                     /\ pc' = "idle"
                     /\ outcome' = [kind |-> "returned", value |-> lastReply']
                [] lastReply'.status = "FAILED" ->
                     /\ pc' = "idle"
                     /\ outcome'.kind = "threw"
                     /\ outcome'.value.message.task = poll.task
                     /\ lastReply'.errorMessage # Null =>
                          outcome'.value.message.url = lastReply'.errorMessage
                [] lastReply'.status = "HTTP" -> outcome'.kind # "returned"
                [] OTHER ->
                     /\ pc' = "poll"
                     /\ outcome' = outcome
                     /\ poll'.polls = poll.polls + 1
                     /\ poll'.elapsed >= Min(poll.elapsed + POLL_INTERVAL_MS,
                                             poll.timeoutMs)
         ELSE /\ pc' = "idle"
              /\ outcome'.kind = "threw"
              /\ outcome'.value.message.text =
                   "RH task {task} timed out after {num}ms"
              /\ outcome'.value.message.task = poll.task
              /\ outcome'.value.message.num = poll.timeoutMs]_vars

C11_Witness ==
  /\ pc = "idle"
  /\ poll.polls = 2
  /\ outcome.kind = "returned"
  /\ outcome.value.status = "SUCCESS"
  /\ Len(outcome.value.results) = 2

\* C12: for a task that never reports SUCCESS or FAILED, rhPollUntilDone
\* eventually ends by throwing the timeout error for that task and budget.
C12_PollTerminates ==
  <>(/\ pc = "idle"
     /\ outcome = [kind |-> "threw",
                   value |-> RhTaskTimeoutError(poll.task, poll.timeoutMs)])

C12_Witness ==
  /\ pc = "idle"
  /\ outcome.kind = "threw"
  /\ outcome.value.message.text = "RH task {task} timed out after {num}ms"
  /\ poll.polls = POLL_TIMEOUT_MS \div POLL_INTERVAL_MS
  /\ poll.timeoutMs = POLL_TIMEOUT_MS

\* C13: a submission answered with a non-2xx status, with a body that is
\* not JSON, or with a non-zero service code fails its stage at once: once
\* such an answer has arrived the invocation is in its catch block or has
\* ended, with that stage as the failed one, and no polling takes place.
C13_SubmissionFailureFailsStage ==
  lastSubmit[2] \in {"http", "malformed", "code", "code_task"} =>
    /\ pc \in {"catch", "idle"}
    /\ failedStage = lastSubmit[1]

\* C14: every invocation of compositeVlog that has created its work
\* directory attempts to remove it before it completes, whatever the exit
\* path, and completes with the URL or the error it had when it entered the
\* finally block, whether or not the removal succeeded.
C14_CleanupOnEveryExit ==
  \A p \in Procs :
    (comp[p].pc = "done" /\ comp[p].created) =>
      /\ comp[p].rmTried
      /\ comp[p].pending.kind \in {"returned", "threw"}
      /\ comp[p].result = comp[p].pending

C14_Witness ==
  /\ comp[1].pc = "done"
  /\ comp[1].rmTried
  /\ comp[1].dir \in fsys.dirs
  /\ comp[1].result.kind = "returned"
  /\ comp[1].n = 2

\* C15: two invocations of compositeVlog that are running at the same time
\* have distinct work directories.
C15_WorkDirsDistinct ==
  \A p, q \in Procs :
    (/\ p # q
     /\ comp[p].pc \notin {"off", "mkdir", "done"}
     /\ comp[q].pc \notin {"off", "mkdir", "done"}) =>
      comp[p].dir # comp[q].dir

\* the style has no entry in BGM_MAP, or the file of its entry is absent
NoTrack(st) ==
  LET filename == Lookup(BGM_MAP, st) IN
    \/ filename = Undefined
    \/ filename.type = "string" /\ filename.str \notin assets

C16_SplitAtomic ==
  /\ pc \in {"split", "split_frames", "catch"} => frameUrls = << >>
  /\ pc = "v_upload" =>
       /\ Len(frameUrls) = 9
       /\ \A i \in 1..9 : frameUrls[i] # Null /\ frameUrls[i] \in stored

C16_Witness ==
  /\ pc = "catch"
  /\ failedStage = "split"
  /\ err.message.text = "Failed to upload frame {num}: storage error"
  /\ Cardinality(stored) = 5
  /\ frameUrls = << >>

\* pixel (x, y) lies in area r
InArea(x, y, r) ==
  /\ r.left <= x /\ x < r.left + r.width
  /\ r.top <= y /\ y < r.top + r.height

C18_ReferenceSlots ==
  pc = "sb_poll" =>
    LET n == Len(rhPhotoNames) IN
      /\ {k \in 1..Len(nodeInfoList) : nodeInfoList[k].fieldName = "image"}
           = 1..10
      /\ \A i \in 0..9 :
           /\ nodeInfoList[i + 1].nodeId = PHOTO_NODE_IDS[i + 1]
           /\ nodeInfoList[i + 1].fieldValue = rhPhotoNames[(i % n) + 1]

C18_Witness ==
  /\ pc = "sb_poll"
  /\ Len(rhPhotoNames) = 5
  /\ nodeInfoList[8].fieldValue = rhPhotoNames[3]
  /\ nodeInfoList[8].nodeId = "166"

\* v is a string and not the empty one
NonEmptyString(v) == v.type = "string" /\ v.str # ""

\* C19: for every style identifier that is not a key of the catalog the
\* prompts in use are the three prompts of cinematic, and for every style
\* identifier each of the three prompts is a non-empty string: the two the
\* storyboard request carries and the one the video requests carry.
C19_StyleLookupTotal ==
  pc = "sb_poll" =>
    LET prompts == getStylePrompts(style) IN
      /\ style \notin DOMAIN styles =>
           /\ nodeInfoList[11].fieldValue = styles.cinematic.storyboardPrompt
           /\ nodeInfoList[12].fieldValue = styles.cinematic.qualityPrompt
           /\ Get(prompts, "videoPrompt") = styles.cinematic.videoPrompt
      /\ NonEmptyString(nodeInfoList[11].fieldValue)
      /\ NonEmptyString(nodeInfoList[12].fieldValue)
      /\ NonEmptyString(Get(prompts, "videoPrompt"))

\* C21: orchestrate issues no stage call before its status write "processing"
\* has been accepted by the store, and the record of a job becomes completed
\* or failed only in a step that finds it processing, never in a step that
\* finds it pending.
C21_ProcessingFirst ==
  [][/\ (started' # started /\ started' # << >>) =>
          /\ writes' # << >>
          /\ writes'[1] = [update |-> ProcessingUpdate, ok |-> TRUE]
     /\ \A j \in DOMAIN store :
          (/\ store'[j].status \in {"completed", "failed"}
           /\ store'[j].status # store[j].status) =>
             store[j].status = "processing"]_vars

\* C22: the submissions of the video stage are issued batch by batch, a batch
\* being the next at most 3 frames in frame order; a batch is issued only
\* when no submission is outstanding, every frame before it has its task id
\* and no submission has failed.
C22_BatchesInOrder ==
  [][(inflight' \ inflight # {}) =>
        /\ pc = "v_submit"
        /\ failedStage = "none"
        /\ inflight = {}
        /\ orphans = 0
        /\ batchStart % 3 = 0
        /\ Len(taskIds) = batchStart
        /\ \A i \in 1..batchStart : taskIds[i] = VideoTaskId(i)
        /\ inflight' = (batchStart + 1)..Min(batchStart + 3, Len(rhFrameNames))
        /\ Cardinality(inflight') <= 3]_vars

C22_Witness ==
  /\ pc = "v_await"
  /\ Len(rhFrameNames) = 9
  /\ batchStart = 6
  /\ Len(taskIds) = 6
  /\ reordered
  /\ inflight = {7, 8, 9}

\* C23: while the video stage polls, every frame has its task id and no
\* submission is outstanding; the task being polled is the next one in
\* submission order, and every task before it has reported success and
\* given its clip; outside the poll loop the stage polls nothing.
C23_PollAfterAllSubmitted ==
  /\ (pc = "v_poll") =>
        /\ inflight = {}
        /\ Len(taskIds) = Len(rhFrameNames)
        /\ Len(rhFrameNames) = Len(frameUrls)
        /\ \A i \in 1..Len(taskIds) : taskIds[i] = VideoTaskId(i)
        /\ Len(clips) < Len(taskIds)
        /\ poll.task = taskIds[Len(clips) + 1]
        /\ \A j \in 1..Len(clips) : clips[j] = OutputUrl(taskIds[j], 1)
  /\ (pc \in {"v_upload", "v_submit", "v_await"}) => poll = NoPoll

C23_Witness ==
  /\ pc = "v_poll"
  /\ Len(taskIds) = 9
  /\ Len(clips) = 4
  /\ poll.task = VideoTaskId(5)
  /\ poll.polls = 1

\* C26: a SUCCESS reply that carries no output fails the stage that polled
\* (the storyboard stage returns no URL, the video stage no clip list);
\* a URL the storyboard stage returns and every clip the video stage holds
\* or returns is the first output of its task, never a missing entry.
C26_NoOutputFailsStage ==
  /\ (lastReply.status = "SUCCESS" /\ lastReply.results = << >>) =>
        /\ pc \in {"catch", "idle"}
        /\ failedStage \in {"storyboard", "video"}
        /\ err.message.text \in {"Storyboard task returned no output URL",
                                 "Video task {task} returned no output URL"}
        /\ failedStage = "storyboard" => storyboardUrl = Null
        /\ videoUrls = << >>
        /\ finalUrl = Null
  /\ storyboardUrl # Null => storyboardUrl = OutputUrl(StoryboardTaskId, 1)
  /\ \A j \in 1..Len(clips) : clips[j] = OutputUrl(VideoTaskId(j), 1)
  /\ \A j \in 1..Len(videoUrls) : videoUrls[j] = OutputUrl(VideoTaskId(j), 1)

C26_Witness ==
  /\ lastReply.status = "SUCCESS"
  /\ lastReply.results = << >>
  /\ failedStage = "video"
  /\ storyboardUrl = OutputUrl(StoryboardTaskId, 1)
  /\ pc = "catch"

\* ---- uploadPhotosToRH on its own ------------------------------------------
\* uploadPhotosToRH(photoUrls) as orchestrate's step 1, for 1..MaxUpload photos
InitUpload ==
  /\ store = [j \in ExistingJobs |-> createJob]
  /\ jobId = "job-1"
  /\ \E n \in 1..MaxUpload : photoUrls = [i \in 1..n |-> PhotoUrl(i)]
  /\ pc = "upload"
  /\ runs = 0
  /\ outcome = NoOutcome
  /\ err = NoError
  /\ started = <<"upload">>
  /\ returned = << >>
  /\ failedStage = "none"
  /\ writes = << >>
  /\ rhNames = << >>
  /\ rhPhotoNames = << >>
  /\ storyboardUrl = Null
  /\ frames = << >>
  /\ frameUrls = << >>
  /\ rhFrameNames = << >>
  /\ taskIds = << >>
  /\ batchStart = 0
  /\ answered = << >>
  /\ inflight = {}
  /\ orphans = 0
  /\ reordered = FALSE
  /\ taskInput = << >>
  /\ poll = NoPoll
  /\ clips = << >>
  /\ videoUrls = << >>
  /\ finalUrl = Null
  /\ style = "vlog"
  /\ image = StoryboardImage
  /\ stored = {}
  /\ lastSubmit = NoSubmit
  /\ transfers = << >>
  /\ nodeInfoList = << >>
  /\ rects = << >>
  /\ UnitsIdle

NextUpload ==
  \/ \E res \in UploadResults : uploadPhotosToRH(res)
  \/ uploadPhotosToRH_return

SpecUpload == InitUpload /\ [][NextUpload]_vars

\* ---- rhPollUntilDone, several callers at once -------------------------------
\* the task a caller polls: the service gives every submission its own id
TaskOf(p) == p

\* rhPollUntilDone(taskId, timeoutMs) has been called
Polling(task, timeoutMs) ==
  [NoPoller EXCEPT !.pc = "loop", !.task = task, !.timeoutMs = timeoutMs]

\* variant: the loop goes on without the answer
NotAwaiting(c) == [c EXCEPT !.pc = "loop"]

\* const result = await rhQuery(taskId): the caller is suspended
Awaiting(c) == [c EXCEPT !.pc = "query"]

\* the call has ended with outcome r: its locals are gone
Ended(c, r) == [NoPoller EXCEPT !.pc = "done", !.task = c.task, !.result = r]

\* what the callers' steps leave alone
PollersFrame ==
  UNCHANGED <<argVars, worldVars, orchVars, pc, err, histVars, resultVars,
              rhNames, frames, reqVars, videoVars, netVars, poll, lastReply,
              now, fsys, assets, comp, ui>>

\* while (Date.now() < deadline): rhQuery(taskId) sends its request
rhQuery_send(p) ==
  /\ pollers[p].pc = "loop"
  /\ BeforeDeadline(pollers[p])
  /\ pollers' = [pollers EXCEPT ![p] = Awaiting([@ EXCEPT !.asked = TRUE])]
  /\ queries' = [queries EXCEPT ![pollers[p].task] = @ + 1]
  /\ PollersFrame

\* the request is answered: return, throw, or go to sleep
rhQuery_answer(p, status, latency) ==
  /\ pollers[p].pc = "query"
  /\ queries' = [queries EXCEPT ![pollers[p].task] = @ - 1]
  /\ LET c == pollers[p] IN
       pollers' = [pollers EXCEPT ![p] =
         CASE status = "HTTP" ->
                Ended(c, Thrown(RhQueryHttpError))
           [] status = "SUCCESS" ->
                Ended(c, [kind |-> "returned",
                          value |-> Reply(status, << >>)])
           [] status = "FAILED" ->
                Ended(c, Thrown(RhTaskFailedError(c.task)))
           [] OTHER ->
                [c EXCEPT !.pc = "sleep", !.latency = latency, !.waited = 0]]
  /\ PollersFrame

\* await sleep(POLL_INTERVAL_MS): the timer fires
rhPollUntilDone_slept(p) ==
  /\ pollers[p].pc = "sleep"
  /\ pollers' = [pollers EXCEPT ![p] =
       [@ EXCEPT !.pc = "loop",
                 !.waited = POLL_INTERVAL_MS,
                 !.latency = 0,
                 !.elapsed = Min(@ + pollers[p].latency + POLL_INTERVAL_MS,
                                 pollers[p].timeoutMs)]]
  /\ queries' = queries
  /\ PollersFrame

\* the loop condition fails: throw the timeout error
rhPollUntilDone_expired(p) ==
  /\ pollers[p].pc = "loop"
  /\ ~BeforeDeadline(pollers[p])
  /\ pollers' = [pollers EXCEPT ![p] =
       Ended(@, Thrown(RhTaskTimeoutError(pollers[p].task,
                                          pollers[p].timeoutMs)))]
  /\ queries' = queries
  /\ PollersFrame

\* two jobs poll at the same time: one its storyboard task, the other one
\* of its video tasks
InitPollers ==
  /\ UnitBase
  /\ pc = "idle"
  /\ outcome = NoOutcome
  /\ poll = NoPoll
  /\ style = "cinematic"
  /\ image = StoryboardImage
  /\ rhPhotoNames = << >>
  /\ storyboardUrl = Null
  /\ videoUrls = << >>
  /\ lastReply = NoReply
  /\ now = 0
  /\ fsys = NoFiles
  /\ assets = {}
  /\ comp = [p \in Procs |-> NotCalled]
  /\ pollers = [p \in Procs |->
                  Polling(TaskOf(p), IF p = 1 THEN POLL_TIMEOUT_MS
                                     ELSE VIDEO_POLL_TIMEOUT_MS)]
  /\ queries = NoQueries
  /\ ui = NoBrowser

NextPollers ==
  \/ \E p \in Procs : rhQuery_send(p)
  \/ \E p \in Procs, status \in PollStatuses, latency \in QueryLatencies :
       rhQuery_answer(p, status, latency)
  \/ \E p \in Procs : rhPollUntilDone_slept(p)
  \/ \E p \in Procs : rhPollUntilDone_expired(p)

SpecPollers == InitPollers /\ [][NextPollers]_vars

\* C24: the service never has more than one unanswered status query for a
\* task, also while several callers poll; a caller sends a query for its
\* task only when none is unanswered and, unless it is its first, after it
\* has slept POLL_INTERVAL_MS since the answer to the one before.
C24_OneQueryOutstanding ==
  [][/\ \A t \in DOMAIN queries : queries'[t] <= 1
     /\ \A p \in Procs :
          (pollers'[p].pc = "query" /\ pollers[p].pc # "query") =>
             /\ queries[pollers[p].task] = 0
             /\ queries'[pollers[p].task] = 1
             /\ pollers[p].asked => pollers[p].waited = POLL_INTERVAL_MS]_vars

C24_Witness ==
  /\ pollers[1].pc = "query"
  /\ pollers[2].pc = "query"
  /\ queries[TaskOf(1)] = 1
  /\ queries[TaskOf(2)] = 1
  /\ pollers[1].elapsed = 3 * POLL_INTERVAL_MS
  /\ pollers[2].elapsed = 5 * POLL_INTERVAL_MS

\* C25: uploadPhotosToRH downloads and uploads the photos one after the
\* other in input order; when it returns, its caller holds one reference per
\* photo, reference i being the name the service gave to photo i; when a
\* download or an upload has failed, nothing after the failed request was
\* requested and the caller holds no reference list at all.
C25_UploadInOrder ==
  /\ Len(transfers) <= 2 * Len(photoUrls)
  /\ \A k \in 1..Len(transfers) :
       transfers[k] = <<IF k % 2 = 1 THEN "download" ELSE "upload",
                        photoUrls[(k + 1) \div 2]>>
  /\ (pc = "upload") =>
        /\ Len(transfers) = 2 * Len(rhNames)
        /\ rhPhotoNames = << >>
  /\ (pc = "sb_submit") =>
        /\ returned = <<"upload">>
        /\ Len(transfers) = 2 * Len(photoUrls)
        /\ rhPhotoNames = [i \in 1..Len(photoUrls) |-> RhFileName(photoUrls[i])]
  /\ (pc = "catch") =>
        /\ failedStage = "upload"
        /\ rhPhotoNames = << >>
        /\ rhNames = << >>
        /\ transfers[Len(transfers)][1] =
             (IF err.message.url # Null THEN "download" ELSE "upload")
  /\ pc \in {"upload", "sb_submit", "catch"}

C25_Witness ==
  /\ pc = "catch"
  /\ Len(photoUrls) = 20
  /\ Len(transfers) = 14
  /\ err.message.text = "RH upload error: unknown"

\* C27: for N > 1 clips the concatenation pass builds N-1 cross-fades;
\* cross-fade i takes the output of cross-fade i-1 (clip 0's video for i = 1)
\* and clip i's video, lasts 1 and starts at i*6 - i; every intermediate
\* label is produced once and consumed once, only the last cross-fade
\* produces [vout], and the audio filter concatenates the N audio streams in
\* clip order.  For N = 1 no filter is built and the clip is copied.
C27_FilterGraph ==
  \A p \in Procs :
    LET c == comp[p]
        parts == c.filter.video
        Produced(l) == {j \in 1..Len(parts) : parts[j].out = l}
        Consumed(l) == {j \in 1..Len(parts) : l \in {parts[j].in1, parts[j].in2}}
    IN
      (c.composed # Null) =>
        /\ c.n = 1 =>
             /\ c.filter = NoFilter
             /\ c.composed = <<"clip", p, 0>>
        /\ c.n > 1 =>
             /\ Len(parts) = c.n - 1
             /\ \A i \in 1..(c.n - 1) :
                  /\ parts[i].in1 = (IF i = 1 THEN VideoIn(0) ELSE parts[i - 1].out)
                  /\ parts[i].in2 = VideoIn(i)
                  /\ parts[i].transition = "fade"
                  /\ parts[i].duration = 1
                  /\ parts[i].offset = i * 6 - i * 1
                  /\ (parts[i].out = VOut) <=> (i = c.n - 1)
                  /\ Cardinality(Produced(parts[i].out)) = 1
                  /\ i < c.n - 1 => Cardinality(Consumed(parts[i].out)) = 1
                  /\ Cardinality(Consumed(VideoIn(i))) = 1
             /\ Cardinality(Consumed(VideoIn(0))) = 1
             /\ c.filter.audio = [i \in 1..c.n |-> AudioIn(i - 1)]

C27_Witness ==
  /\ comp[1].n = 9
  /\ comp[1].composed # Null
  /\ Len(comp[1].filter.video) = 8
  /\ comp[1].filter.video[8].offset = 40
  /\ comp[1].filter.video[8].out = VOut

\* C28: the composed file of N clips of 6 s is shorter than N*6 by
\* (N-1) * 1 s, in its video stream and in its audio stream; for one clip it
\* has the length of that clip.
C28_ComposedDuration ==
  \A p \in Procs :
    (comp[p].composed # Null) =>
      /\ comp[p].vsec = comp[p].n * 6 - (comp[p].n - 1) * 1
      /\ comp[p].asec = comp[p].n * 6 - (comp[p].n - 1) * 1

\* C29: two invocations that have uploaded different final videos have
\* uploaded them under different keys.
C29_KeysDistinct ==
  \A p, q \in Procs :
    (/\ p # q
     /\ comp[p].key # Null
     /\ comp[q].key # Null
     /\ comp[p].uploaded # comp[q].uploaded) =>
       comp[p].key # comp[q].key

\* C30: no invocation of compositeVlog waits for ever for a media tool: a
\* tool that overruns is killed at its limit (300000 ms for the
\* concatenation pass, 120000 ms for the probe and the mix), and the
\* invocation then throws and has uploaded nothing.
C30_ToolsBounded ==
  \A p \in Procs :
    /\ comp[p].pc # "hung"
    /\ (/\ comp[p].pending.kind = "threw"
        /\ comp[p].pending.value.message.text = "Command failed: ffmpeg (killed)") =>
          /\ comp[p].pending.value.message.num \in {300000, 120000}
          /\ comp[p].uploaded = Null

\* C33: orchestrate returns a final URL only if a job record with the given
\* id exists and has been updated to status completed with that URL.
C33_ReturnsOnlyForCompletedRecord ==
  Returned =>
    /\ jobId \in DOMAIN store
    /\ store[jobId].status = "completed"
    /\ store[jobId].videoUrl = outcome.value

\* C32: whenever an orchestrate call for an existing job has finished
\* (returned or thrown), the job's persisted status is completed or failed,
\* never pending or processing.
C32_FinishedIsTerminal ==
  ((Returned \/ Threw) /\ jobId \in DOMAIN store) =>
     store[jobId].status \in {"completed", "failed"}

\* the indexes of the names that occupy at least one image slot of the request
UsedRefs ==
  {r \in 1..Len(rhPhotoNames) :
     \E k \in 1..Len(nodeInfoList) :
       /\ nodeInfoList[k].fieldName = "image"
       /\ nodeInfoList[k].fieldValue = rhPhotoNames[r]}

\* C35: in the request generateStoryboard submits for n names, every name
\* occupies at least one of the ten slots when n <= 10, and when n > 10
\* exactly the first ten names are used: a name at index >= 10 occupies no
\* slot.
C35_SlotCoverage ==
  pc = "sb_poll" =>
    LET n == Len(rhPhotoNames) IN
      /\ n <= 10 => UsedRefs = 1..n
      /\ n > 10 => UsedRefs = 1..10

C35_Witness ==
  /\ pc = "sb_poll"
  /\ Len(rhPhotoNames) = 20
  /\ nodeInfoList[10].fieldValue = rhPhotoNames[10]
  /\ UsedRefs = 1..10
  /\ 11 \notin UsedRefs

\* the key of `styles` whose prompts getStylePrompts(s) returns for an
\* accepted style s
PromptStyle(s) == CHOOSE k \in DOMAIN styles : styles[k] = getStylePrompts(s)

\* C36: for every style the job-creation endpoint accepts, the background
\* track compositeVlog resolves is the track of the style whose prompts the
\* storyboard and video stages use: when the prompts are the default
\* style's, the default style's track is resolved.
C36_PromptsAndTrackSameStyle ==
  \A p \in Procs :
    (comp[p].bgm # "pending" /\ comp[p].style \in VALID_STYLES) =>
      comp[p].bgm = resolveBgmPath(PromptStyle(comp[p].style), assets)

\* C31: in the audio-mix pass the background track is trimmed to the probed
\* duration of the composed file and its 5 s fade-out ends exactly where the
\* trimmed track ends: fade start + 5 = duration, whatever the probe yields.
C31_FadeEndsAtClipEnd ==
  \A p \in Procs :
    (comp[p].bgmFilter.fadeLen # 0) =>
      /\ comp[p].bgmFilter.trimEnd = comp[p].duration
      /\ comp[p].bgmFilter.fadeLen = 5
      /\ comp[p].bgmFilter.fadeStart + 5 = comp[p].duration

\* the status query that was answered last has failed
QueryFailed(r) == r.status \in {"HTTP", "NETWORK"}

\* C34: when a status query fails (non-2xx answer or network error) while
\* a task is polled, the poll loop ends in that very step with the query's
\* error, without another query or sleep; the enclosing stage fails with it,
\* no later stage runs, orchestrate's catch block is the next to run and
\* throws it, and the job is written as failed with its message when the
\* store accepts the write.
C34_QueryFailureFailsAtOnce ==
  [][/\ (pc \in {"sb_poll", "v_poll"} /\ QueryFailed(lastReply')) =>
          /\ pc' = "catch"
          /\ poll' = NoPoll
          /\ err' = QueryError(lastReply'.status)
          /\ failedStage' = IF pc = "sb_poll" THEN "storyboard" ELSE "video"
          /\ started' = started
          /\ videoUrls' = << >>
     /\ (pc = "catch" /\ QueryFailed(lastReply) /\ pc' # "catch") =>
          /\ pc' = "idle"
          /\ err = QueryError(lastReply.status)
          /\ outcome' = [kind |-> "threw", value |-> err]
          /\ (jobId \in DOMAIN store /\ writes'[Len(writes')].ok) =>
               /\ store'[jobId].status = "failed"
               /\ store'[jobId].errorMessage = err.message
    ]_vars

C34_Witness ==
  /\ Threw
  /\ lastReply.status = "NETWORK"
  /\ failedStage = "video"
  /\ started = <<"upload", "storyboard", "split", "video">>
  /\ outcome.value = RhQueryNetworkError
  /\ jobId \in DOMAIN store
  /\ store[jobId].status = "failed"
  /\ store[jobId].errorMessage = RhQueryNetworkError.message

\* ---- the pages that follow a job ---------------------------------------------
\* status fetches of one page that may await their answer at the same time
MaxFetches == 2
\* navigations to the result page that may be scheduled at the same time;
\* one scheduled beyond that number coincides with the last
MaxTimers == 2

\* FALLBACK_VIDEO of the result page
FALLBACK_VIDEO == <<"fallback">>

\* NextResponse.json({status: job.status, ...(job.videoUrl && {videoUrl}),
\* ...(job.errorMessage && {error})}): the fields of the body the pages read
JobResponse(row) ==
  [f \in {"status"}
         \cup (IF row.videoUrl # Null THEN {"videoUrl"} ELSE {})
         \cup (IF row.errorMessage # NoMessage THEN {"error"} ELSE {}) |->
     CASE f = "status" -> row.status
       [] f = "videoUrl" -> row.videoUrl
       [] f = "error" -> row.errorMessage]

\* GET /api/vlog/[jobId] when the store answers: 404 without a row
GET(st, id) ==
  IF id \in DOMAIN st
    THEN [ok |-> TRUE, body |-> JobResponse(st[id])]
    ELSE [ok |-> FALSE, body |-> [error |-> "Job not found"]]

\* how a fetch of the status ends: answered by the endpoint from the store,
\* answered 500 (getJob threw), rejected (network error)
FetchResults == {"ok", "http", "network"}

\* the answer res.ok is true of
Fetched(res, st, id) == res = "ok" /\ GET(st, id).ok

\* the processing page is left: its interval is cleared by the effect's
\* cleanup, the fetches it awaits go on without a component (those beyond
\* MaxFetches coincide with the last)
Unmounted(u) ==
  [u EXCEPT !.stale = Min(u.stale + u.plain + u.owner, MaxFetches),
            !.plain = 0, !.owner = 0,
            !.interval = FALSE, !.effectDue = FALSE, !.jobStatus = "pending",
            !.errorMsg = FALSE, !.seenTerminal = FALSE,
            !.askedAfterTerminal = FALSE]

\* router.push(`/processing?jobId=${jobId}`): a new ProcessingPage with
\* jobStatus "pending", whose effect is to run
ProcessingMounted(u) ==
  [u EXCEPT !.page = "processing", !.effectDue = TRUE, !.result = "off",
            !.videoUrl = Null]

\* router.push(`/result?jobId=${jobId}`): a new ResultPage, loading
ResultMounted(u) ==
  [Unmounted(u) EXCEPT !.page = "result", !.result = "loading"]

\* clearInterval(interval): the callbacks of that interval that still await
\* pollJob have no interval to clear any more
IntervalCleared(u) ==
  [u EXCEPT !.interval = FALSE, !.plain = u.plain + u.owner, !.owner = 0]

\* a status query is issued: note whether a terminal status had been seen
Asked(u) == [u EXCEPT !.askedAfterTerminal = @ \/ u.seenTerminal]

PagesFrame ==
  UNCHANGED <<argVars, worldVars, pc, err, histVars, resultVars, rhNames,
              frames, reqVars, videoVars, netVars, poll, lastReply, now, fsys,
              assets, comp, pollers, queries, runs, outcome, writes>>

\* the effect of ProcessingPage, after the first render and after every
\* render in which jobStatus (a dependency) has changed: cleanup of the
\* previous run, then pollJob() and a new interval
ProcessingPage_effect ==
  /\ ui.page = "processing"
  /\ ui.effectDue
  /\ ui.plain + ui.owner < MaxFetches
  /\ ui' = IF jobId = ""
             THEN [NoBrowser EXCEPT !.page = "create"]
             ELSE LET u == IntervalCleared(ui) IN
               Asked([u EXCEPT !.effectDue = FALSE, !.interval = TRUE,
                               !.plain = u.plain + 1])
  /\ store' = store
  /\ PagesFrame

\* the interval's callback runs: const status = await pollJob()
ProcessingPage_interval ==
  /\ ui.page = "processing"
  /\ ui.interval
  /\ ui.plain + ui.owner < MaxFetches
  /\ ui' = Asked([ui EXCEPT !.owner = ui.owner + 1])
  /\ store' = store
  /\ PagesFrame

\* the fetch of a pollJob call is answered.  kind "plain": the caller
\* ignores what pollJob returns; "owner": the caller is a callback of the
\* live interval and clears it on "completed" and "failed"; "stale": the
\* page has been left, setting its state does nothing
pollJob(kind, res) ==
  /\ ui[kind] > 0
  /\ kind # "stale" => ui.page = "processing"
  /\ LET ok == Fetched(res, store, jobId)
         status == IF ok THEN GET(store, jobId).body.status ELSE "failed"
         mounted == kind # "stale"
         u1 == [ui EXCEPT ![kind] = @ - 1,
                  !.timers = IF ok /\ status = "completed"
                               THEN Min(@ + 1, MaxTimers) ELSE @]
         u2 == IF mounted
                 THEN [u1 EXCEPT
                         !.jobStatus = IF ok THEN status ELSE @,
                         !.effectDue = @ \/ (ok /\ status # ui.jobStatus),
                         !.errorMsg = @ \/ status = "failed",
                         !.seenTerminal =
                            @ \/ (ok /\ status \in {"completed", "failed"})]
                 ELSE u1
     IN ui' = IF kind = "owner" /\ status \in {"completed", "failed"}
                THEN IntervalCleared(u2) ELSE u2
  /\ store' = store
  /\ PagesFrame

\* setTimeout(() => router.push(`/result?jobId=${jobId}`), 800) fires
pollJob_push ==
  /\ ui.timers > 0
  /\ ui' = IF ui.page = "result"
             THEN [ui EXCEPT !.timers = @ - 1]
             ELSE [ResultMounted(ui) EXCEPT !.timers = @ - 1]
  /\ store' = store
  /\ PagesFrame

\* the effect of ResultPage and, with a jobId, the answer to its fetch
fetchResult(res) ==
  /\ ui.page = "result"
  /\ ui.result = "loading"
  /\ LET job == GET(store, jobId).body IN
       ui' =
         CASE jobId = "" ->
                [ui EXCEPT !.result = "shown", !.videoUrl = FALLBACK_VIDEO]
           [] jobId # "" /\ ~Fetched(res, store, jobId) ->
                [ui EXCEPT !.result = "error"]
           [] jobId # "" /\ Fetched(res, store, jobId)
                         /\ job.status = "completed"
                         /\ "resultUrl" \in DOMAIN job ->
                [ui EXCEPT !.result = "shown", !.videoUrl = job["resultUrl"]]
           [] jobId # "" /\ Fetched(res, store, jobId)
                         /\ ~(job.status = "completed"
                              /\ "resultUrl" \in DOMAIN job)
                         /\ job.status = "failed" ->
                [ui EXCEPT !.result = "error"]
           [] jobId # "" /\ Fetched(res, store, jobId)
                         /\ ~(job.status = "completed"
                              /\ "resultUrl" \in DOMAIN job)
                         /\ job.status # "failed" ->
                ProcessingMounted(ui)
  /\ store' = store
  /\ PagesFrame

\* the status writes of the pipeline that runs for the job meanwhile
PipelineWrites(status) ==
  CASE status = "pending" -> {ProcessingUpdate}
    [] status = "processing" ->
         {CompletedUpdate(FinalUrl), FailedUpdate(ErrMsg(RhQueryHttpError))}
    [] OTHER -> {}

orchestrate_write(update) ==
  /\ jobId \in DOMAIN store
  /\ update \in PipelineWrites(store[jobId].status)
  /\ store' = updateJob(store, jobId, update)
  /\ ui' = ui
  /\ PagesFrame

\* a user opens the processing page or the result page, with the id of a
\* job, with an id no job has, or without an id
InitPages ==
  /\ store = [j \in ExistingJobs |-> createJob]
  /\ jobId \in JobIds \cup {""}
  /\ photoUrls = << >>
  /\ runs = 0
  /\ err = NoError
  /\ started = << >>
  /\ returned = << >>
  /\ failedStage = "none"
  /\ writes = << >>
  /\ rhNames = << >>
  /\ frames = << >>
  /\ frameUrls = << >>
  /\ rhFrameNames = << >>
  /\ taskIds = << >>
  /\ batchStart = 0
  /\ answered = << >>
  /\ inflight = {}
  /\ orphans = 0
  /\ reordered = FALSE
  /\ taskInput = << >>
  /\ clips = << >>
  /\ finalUrl = Null
  /\ stored = {}
  /\ lastSubmit = NoSubmit
  /\ transfers = << >>
  /\ nodeInfoList = << >>
  /\ rects = << >>
  /\ pc = "idle"
  /\ outcome = NoOutcome
  /\ poll = NoPoll
  /\ style = "cinematic"
  /\ image = StoryboardImage
  /\ rhPhotoNames = << >>
  /\ storyboardUrl = Null
  /\ videoUrls = << >>
  /\ lastReply = NoReply
  /\ now = 0
  /\ fsys = NoFiles
  /\ assets = {}
  /\ comp = [p \in Procs |-> NotCalled]
  /\ pollers = [p \in Procs |-> NoPoller]
  /\ queries = NoQueries
  /\ ui \in {ProcessingMounted(NoBrowser),
             [NoBrowser EXCEPT !.page = "result", !.result = "loading"]}

NextPages ==
  \/ ProcessingPage_effect
  \/ ProcessingPage_interval
  \/ \E kind \in {"plain", "owner", "stale"}, res \in FetchResults :
       pollJob(kind, res)
  \/ pollJob_push
  \/ \E res \in FetchResults : fetchResult(res)
  \/ \E update \in PipelineWrites("pending") \cup PipelineWrites("processing") :
       orchestrate_write(update)

\* the browser's event loop runs every timer that is due and the
\* continuation of every fetch that has settled
SpecPages == InitPages /\ [][NextPages]_vars /\ WF_vars(NextPages)

\* the record of the job is completed and holds a result URL
JobCompleted ==
  /\ jobId \in DOMAIN store
  /\ store[jobId].status = "completed"
  /\ store[jobId].videoUrl # Null

\* C37: for a job whose record is completed with a result URL, the result
\* page, once open, eventually shows the video, unless a status fetch fails
\* and its error is shown instead: the navigation between the processing
\* page and the result page does not go on for ever.
C37_ResultPageSettles ==
  (ui.page = "result" /\ JobCompleted)
     ~> \/ ui.page = "result" /\ ui.result \in {"shown", "error"}
        \/ ui.page = "processing" /\ ui.errorMsg

\* C38: while no terminal status of the job has been reported to the
\* processing page and the job is pending or processing, the page keeps
\* polling (its interval is live, or its effect is about to set one up); and
\* no status query is issued after a terminal status has been reported.
C38_PollsUntilTerminal ==
  /\ (/\ ui.page = "processing"
      /\ jobId \in DOMAIN store
      /\ store[jobId].status \in {"pending", "processing"}
      /\ ~ui.seenTerminal) => (ui.interval \/ ui.effectDue)
  /\ ~ui.askedAfterTerminal

====
